---- MODULE Spec2Model ----
(***************************************************************************)
(* Model of the Xiaohongshu content-monitoring engine                      *)
(* (services/xhs/monitor.py) and of the service loop that restarts it      *)
(* (main.py).                                                              *)
(*                                                                         *)
(* One JsonState per XHSMonitorService instance ("generation"), one state  *)
(* file shared by all of them, one monitor_single_creator loop per creator *)
(* and generation.  A loop is always parked at one of its awaits; an       *)
(* action runs the code from one await to the next.                        *)
(***************************************************************************)
EXTENDS Integers, Sequences, FiniteSets, TLC

\* ---------------------------------------------------------------- bounds
NumCreators == 2
MaxPosts == 4
MaxGen == 2
SmallQuota == 2
SaveChunks == 2
MaxEvict == 2
MaxDayEvict == 1
MaxDailyIds == 2
MaxImages == 5
MaxBatch == 3
MaxUrls == 2
MaxListed == 2
MaxToken == 2
MaxNoteImages == 2
MaxExtra == 1
MaxUsers == 2

\* ------------------------------------------------------ program constants
SEEN_CAP == 200
DAILY_KEYS_CAP == 7
FIRST_RUN_SAMPLE == 3
IMAGE_BATCH_SIZE == 5
PROFILE_ID_LEN == 24

Creators == 1..NumCreators
Posts == 1..MaxPosts
Gens == 1..MaxGen
Today == 1

VARIABLES
    once,            \* start_monitoring(once=...): run-once or poll-forever
    quota,           \* platform: how many posts are published today in all
    feedN,           \* platform: posts 1..feedN[c] of creator c are published today
    state,           \* state[g]: JsonState.state of instance g (keyed by creator)
    disk,            \* the state file and its ".tmp" sibling
    gstatus,         \* per instance: "unborn", "running", "orphaned", "cancelled"
    cur,             \* the instance main() currently refers to as monitor_task
    pc,              \* pc[g][c]: the await the loop of creator c is parked at
    branch,          \* tick local: "first" (baseline empty) or "incr"
    today_note_ids,  \* tick local: today_note_ids of process_creator
    admitted,        \* tick local: initial_notes / new_notes after sorting
    outcomes,        \* tick local: what happened to admitted[1..Len(outcomes)]
    dispatched,      \* history: send_card_message calls per instance, creator, post (0,1,2+)
    backlog,         \* history: today ids listed by a first-encounter tick, not sampled
    savepc,          \* position inside JsonState.save when taken step by step
    saving           \* the document save is writing, and the target before it

\* state of the parts that are exercised on their own
VARIABLES
    inserted,        \* history: per creator, the ids mark_seen appended, in order
    today_key,       \* the day key date.today() gives (ledger exercised on its own)
    lastcall,        \* history: the last JsonState call and its arguments
    summ,            \* one run of _summarize_images_in_batches: locals and AI calls
    post,            \* one post's images on their way through _process_today_note
    fetch,           \* one run of _fetch_note_detail_card: position, url, calls made
    today_note,      \* one post on its way through _process_today_note, tick after tick
    resolve,         \* one run of _resolve_user: position, reference, calls made, result
    listing,         \* one creator's ticks over a list whose entries may lack a time
    request,         \* one run of XHSClient._request: attempts, delays, result
    reloader         \* the service loop of main: event, tasks, position

aux == <<inserted, today_key, lastcall, summ, post, fetch, today_note, resolve, listing,
         request, reloader>>

engine == <<once, quota, feedN, state, disk, gstatus, cur, pc, branch, today_note_ids,
            admitted, outcomes, dispatched, backlog, savepc, saving>>

vars == <<engine, aux>>

\* ------------------------------------------------------------ sequences
Range(s) == {s[i] : i \in 1..Len(s)}

Min(a, b) == IF a < b THEN a ELSE b

\* s[-n:] of Python
LastN(s, n) == IF Len(s) <= n THEN s ELSE SubSeq(s, Len(s) - n + 1, Len(s))

\* s[:n] of Python
FirstN(s, n) == SubSeq(s, 1, Min(n, Len(s)))

RECURSIVE Reverse(_)
Reverse(s) == IF s = <<>> THEN <<>> ELSE Append(Reverse(Tail(s)), Head(s))

RECURSIVE FilterOut(_, _)
FilterOut(s, S) ==
    IF s = <<>> THEN <<>>
    ELSE IF Head(s) \in S THEN FilterOut(Tail(s), S)
         ELSE <<Head(s)>> \o FilterOut(Tail(s), S)

\* publish time of a post (ms since epoch, abstracted): later ids are newer
note_time(p) == p

\* insert x into the time-sorted sequence s behind every element that is not
\* newer, which makes the sort stable like list.sort
RECURSIVE InsertByTime(_, _)
InsertByTime(s, x) ==
    IF s = <<>> THEN <<x>>
    ELSE IF note_time(Head(s)) <= note_time(x)
         THEN <<Head(s)>> \o InsertByTime(Tail(s), x)
         ELSE <<x>> \o s

RECURSIVE SortByTime(_)
SortByTime(s) ==
    IF s = <<>> THEN <<>>
    ELSE InsertByTime(SortByTime(FirstN(s, Len(s) - 1)), s[Len(s)])

\* list.sort(key=time, reverse=True): descending, ties keep their order
SortByTimeDesc(s) == Reverse(SortByTime(Reverse(s)))

\* the order in which the list endpoint returns a set of posts: neither
\* ascending nor descending in time (odd ids newest first, then even ids)
ListKey(p) == IF p % 2 = 1 THEN 0 - p ELSE p

RECURSIVE ListOrder(_)
ListOrder(S) ==
    IF S = {} THEN <<>>
    ELSE LET p == CHOOSE x \in S : \A y \in S : ListKey(x) <= ListKey(y)
         IN <<p>> \o ListOrder(S \ {p})

\* ------------------------------------------------------------ JsonState
EmptyEntry == [seen |-> <<>>, daily_seen |-> <<>>]
EmptyDoc == [c \in Creators |-> EmptyEntry]

get_daily_seen(e, day) ==
    IF day \in DOMAIN e.daily_seen THEN e.daily_seen[day] ELSE <<>>

\* has_seen looking the id up in today's set instead of the all-time list
has_seen_today(e, id) == id \in Range(get_daily_seen(e, Today))

has_seen(e, id) == id \in Range(e.seen)

\* mark_seen cutting with seen[:200]: the oldest ids are kept
mark_seen_keep_oldest(e, id) ==
    LET s1 == IF id \in Range(e.seen) THEN e.seen ELSE Append(e.seen, id)
    IN [e EXCEPT !.seen = IF Len(s1) > SEEN_CAP THEN FirstN(s1, SEEN_CAP) ELSE s1]

mark_seen(e, id) ==
    LET s1 == IF id \in Range(e.seen) THEN e.seen ELSE Append(e.seen, id)
    IN [e EXCEPT !.seen = IF Len(s1) > SEEN_CAP THEN LastN(s1, SEEN_CAP) ELSE s1]

\* the largest n keys of a set of day keys
RECURSIVE NewestKeys(_, _)
NewestKeys(K, n) ==
    IF n = 0 \/ K = {} THEN {}
    ELSE LET m == CHOOSE x \in K : \A y \in K : y <= x
         IN {m} \cup NewestKeys(K \ {m}, n - 1)

set_daily_seen(e, day, ids) ==
    LET keys == DOMAIN e.daily_seen \cup {day}
        kept == IF Cardinality(keys) > DAILY_KEYS_CAP
                THEN NewestKeys(keys, DAILY_KEYS_CAP) ELSE keys
    IN [e EXCEPT !.daily_seen =
            [k \in kept |-> IF k = day THEN ids ELSE e.daily_seen[k]]]

\* add_daily_seen starting a new list for the day on every call
add_daily_seen_replacing(e, day, id) ==
    [e EXCEPT !.daily_seen =
        [k \in DOMAIN e.daily_seen \cup {day} |->
            IF k = day THEN <<id>> ELSE e.daily_seen[k]]]

add_daily_seen(e, day, id) ==
    LET items == get_daily_seen(e, day)
        added == IF id \in Range(items) THEN items ELSE Append(items, id)
    IN [e EXCEPT !.daily_seen =
            [k \in DOMAIN e.daily_seen \cup {day} |->
                IF k = day THEN added ELSE e.daily_seen[k]]]

NoCall == [op |-> "none", c |-> 0, ids |-> <<>>]

\* None, and the empty string: both are false in a Python condition
None == 0

NoSumm == [pc |-> "idle", n |-> 0, size |-> 0, summarizer |-> FALSE, batches |-> <<>>,
           i |-> 0, prev_summary |-> None, last_summary |-> None, calls |-> <<>>,
           result |-> None]

NoPost == [pc |-> "idle", path |-> "none", cover_url |-> None, listed |-> <<>>,
           images |-> <<>>, refs |-> <<>>]

NoFetch == [pc |-> "idle", url |-> <<>>, attempts |-> <<>>, refreshes |-> <<>>,
            result |-> "pending"]

NoDigest == [formatted |-> FALSE, summary_section |-> FALSE, refs |-> 0]

NoNote == [pc |-> "idle", c |-> 0, type |-> "absent", detail |-> "none", image_urls |-> 0,
           images |-> 0, ai_calls |-> 0, summary |-> None, digest |-> NoDigest,
           sink |-> "none", skipped |-> {}, sends |-> [c \in 1..NumCreators |-> 0]]

NoListing == [pc |-> "idle", notes |-> <<>>, today_note_ids |-> <<>>, branch |-> "none",
              admitted |-> <<>>, i |-> 0, e |-> EmptyEntry, sent |-> {}]

NoRequest == [pc |-> "idle", method |-> "none", params |-> FALSE, attempt |-> 0, outcomes |-> <<>>,
              http |-> 0, sleeps |-> 0, result |-> "none"]

NoReloader == [pc |-> "idle", event |-> FALSE, monitor_task |-> "none",
               panel_task |-> "none", reload_task |-> "none", unserved |-> FALSE,
               reason |-> "none", replaced |-> "none"]

NoIdentity == [found |-> FALSE, user_id |-> <<>>, xsec_token |-> <<>>]

NoResolve == [pc |-> "idle", ref |-> <<>>, raw_id |-> <<>>, name |-> <<>>, calls |-> <<>>,
              token_found |-> FALSE, result |-> NoIdentity, lists |-> FALSE,
              users |-> <<>>]

\* ------------------------------------------------------- the state file
NoFile == [doc |-> EmptyDoc, n |-> 0 - 1]

\* a file holding the first n of the SaveChunks pieces json.dump writes
FileOf(doc, n) == [doc |-> doc, n |-> n]

\* JsonState._load: a missing or unparsable file gives the empty state
load(d) == IF d.target.n = SaveChunks THEN d.target.doc ELSE EmptyDoc

\* save writing the record of the first creator only
save_first_record(doc) ==
    [target |-> FileOf([c \in Creators |-> IF c = 1 THEN doc[c] ELSE EmptyEntry],
                       SaveChunks),
     tmp |-> NoFile]

\* JsonState.save taken as a whole (it contains no await)
save(doc) == [target |-> FileOf(doc, SaveChunks), tmp |-> NoFile]

\* ------------------------------------------------- process_creator, pieces
Alive(g) == gstatus[g] \in {"running", "orphaned"}

\* initial_notes without the second sort: the sample stays newest first
initial_notes_newest_first(ids) == FirstN(SortByTimeDesc(ids), FIRST_RUN_SAMPLE)

\* initial_notes: the FIRST_RUN_SAMPLE newest today notes, oldest first
initial_notes(ids) == SortByTime(FirstN(SortByTimeDesc(ids), FIRST_RUN_SAMPLE))

\* new_notes without the baseline filter
new_notes_unfiltered(ids, seen_today) == SortByTime(ids)

\* new_notes: today notes outside today's baseline, oldest first
new_notes(ids, seen_today) == SortByTime(FilterOut(ids, Range(seen_today)))

\* the "updated" flag of the incremental loop
updated(outs) ==
    \E i \in 1..Len(outs) : outs[i] \in {"seen", "skip", "sent", "sent_fail"}

\* the synchronous part of the incremental loop: candidates already in the
\* all-time seen list are only added to today's set, up to the first candidate
\* that has to be awaited
RECURSIVE SkipSeen(_, _, _)
SkipSeen(e, adm, outs) ==
    IF Len(outs) < Len(adm) /\ has_seen(e, adm[Len(outs) + 1])
    THEN SkipSeen(add_daily_seen(e, Today, adm[Len(outs) + 1]), adm,
                  Append(outs, "seen"))
    ELSE [e |-> e, outs |-> outs]

\* what the caller of process_creator does when it returns / raises:
\* monitor_single_creator sleeps check_interval / logs and sleeps 60 s,
\* the run-once loop of start_monitoring goes on to the next creator / is left
AfterReturn(c) == IF once THEN "done" ELSE "sleep"

\* run-once mode: the for loop of start_monitoring calls process_creator for
\* the next creator as soon as the previous call has returned
OnceNext(f, c) ==
    IF once /\ c < NumCreators THEN [f EXCEPT ![c + 1] = "resolve"] ELSE f

Returned(g, c) ==
    pc' = [pc EXCEPT ![g] = OnceNext([pc[g] EXCEPT ![c] = AfterReturn(c)], c)]

\* monitor_single_creator without its except clause: the task ends
ExceptionHandlerExits(c) == IF once THEN "aborted" ELSE "dead"

ExceptionHandler(c) == IF once THEN "aborted" ELSE "backoff"

Raised(g, c) == pc' = [pc EXCEPT ![g][c] = ExceptionHandler(c)]

\* the code between the end of one awaited note and the next await (or the return)
Continue(g, c, e, br, ids, adm, outs) ==
    IF br = "first"
    THEN /\ outcomes' = [outcomes EXCEPT ![g][c] = outs]
         /\ IF Len(outs) < Len(adm)
            THEN /\ state' = [state EXCEPT ![g][c] = e]
                 /\ pc' = [pc EXCEPT ![g][c] = "note"]
                 /\ UNCHANGED disk
            ELSE /\ state' = [state EXCEPT ![g][c] = set_daily_seen(e, Today, ids)]
                 /\ disk' = save(state'[g])
                 /\ Returned(g, c)
    ELSE LET r == SkipSeen(e, adm, outs)
         IN /\ outcomes' = [outcomes EXCEPT ![g][c] = r.outs]
            /\ state' = [state EXCEPT ![g][c] = r.e]
            /\ IF Len(r.outs) < Len(adm)
               THEN /\ pc' = [pc EXCEPT ![g][c] = "note"]
                    /\ UNCHANGED disk
               ELSE /\ disk' = IF updated(r.outs) THEN save(state'[g]) ELSE disk
                    /\ Returned(g, c)

Bump(g, c, p) ==
    dispatched' = [dispatched EXCEPT ![g][c][p] = Min(@ + 1, 2)]

\* ------------------------------------------------------------- actions
\* the await of _resolve_user ends
ResolveUser(g, c) ==
    /\ Alive(g) /\ pc[g][c] = "resolve"
    /\ \E ok \in BOOLEAN :
          IF ok THEN pc' = [pc EXCEPT ![g][c] = "list"] ELSE Returned(g, c)
    /\ UNCHANGED <<aux, once, quota, feedN, state, disk, gstatus, cur, branch, today_note_ids,
                   admitted, outcomes, dispatched, backlog, savepc, saving>>

\* only a failed listing ends the tick
listing_failed(ok, ids) == ~ok

\* "if not ok: return" and "if not today_note_ids: return"
nothing_listed(ok, ids) == ~ok \/ ids = <<>>

\* the await of get_user_note_info ends; filter to today, choose the branch
ListNotes(g, c) ==
    /\ Alive(g) /\ pc[g][c] = "list"
    /\ UNCHANGED <<aux, once, quota, feedN, gstatus, cur, dispatched, savepc, saving>>
    /\ \E ok \in BOOLEAN :
          LET ids == ListOrder(1..feedN[c])
              seen_today == get_daily_seen(state[g][c], Today)
          IN IF nothing_listed(ok, ids)
             THEN /\ Returned(g, c)
                  /\ UNCHANGED <<state, disk, branch, today_note_ids, admitted,
                                 outcomes, backlog>>
             ELSE /\ today_note_ids' = [today_note_ids EXCEPT ![g][c] = ids]
                  /\ IF seen_today = <<>>
                     THEN /\ branch' = [branch EXCEPT ![g][c] = "first"]
                          /\ backlog' = [backlog EXCEPT ![c] =
                                @ \cup (Range(ids) \ Range(initial_notes(ids)))]
                          /\ admitted' = [admitted EXCEPT ![g][c] = initial_notes(ids)]
                          /\ Continue(g, c, state[g][c], "first", ids,
                                      initial_notes(ids), <<>>)
                     ELSE /\ branch' = [branch EXCEPT ![g][c] = "incr"]
                          /\ UNCHANGED backlog
                          /\ admitted' = [admitted EXCEPT ![g][c] =
                                             new_notes(ids, seen_today)]
                          /\ IF new_notes(ids, seen_today) = <<>>
                             THEN /\ Returned(g, c)
                                  /\ UNCHANGED <<state, disk, outcomes>>
                             ELSE Continue(g, c, state[g][c], "incr", ids,
                                           new_notes(ids, seen_today), <<>>)

\* _process_today_note for the next admitted note, from its first await to its
\* return or exception, and then on to the next await of process_creator
process_today_note(g, c) ==
    /\ Alive(g) /\ pc[g][c] = "note"
    /\ UNCHANGED <<aux, once, quota, feedN, gstatus, cur, branch, today_note_ids, admitted,
                   backlog, savepc, saving>>
    /\ LET note_id == admitted[g][c][Len(outcomes[g][c]) + 1]
           e == state[g][c]
           marked == mark_seen(add_daily_seen(e, Today, note_id), note_id)
       IN \E out \in {"skip", "sent", "sent_fail", "raise", "sink_raise"} :
             /\ IF out \in {"sent", "sent_fail", "sink_raise"}
                THEN Bump(g, c, note_id) ELSE UNCHANGED dispatched
             /\ IF out \in {"raise", "sink_raise"}
                THEN /\ outcomes' = [outcomes EXCEPT ![g][c] = Append(@, out)]
                     /\ Raised(g, c)
                     /\ UNCHANGED <<state, disk>>
                ELSE Continue(g, c, marked, branch[g][c], today_note_ids[g][c],
                              admitted[g][c], Append(outcomes[g][c], out))

\* asyncio.sleep(check_interval) or asyncio.sleep(60) ends: next iteration
Wake(g, c) ==
    /\ Alive(g) /\ pc[g][c] \in {"sleep", "backoff"}
    /\ pc' = [pc EXCEPT ![g][c] = "resolve"]
    /\ branch' = [branch EXCEPT ![g][c] = "none"]
    /\ today_note_ids' = [today_note_ids EXCEPT ![g][c] = <<>>]
    /\ admitted' = [admitted EXCEPT ![g][c] = <<>>]
    /\ outcomes' = [outcomes EXCEPT ![g][c] = <<>>]
    /\ UNCHANGED <<aux, once, quota, feedN, state, disk, gstatus, cur, dispatched, backlog,
                   savepc, saving>>

RECURSIVE Published(_)
Published(C) ==
    IF C = {} THEN 0
    ELSE LET c == CHOOSE x \in C : TRUE IN feedN[c] + Published(C \ {c})

\* a monitored creator publishes one more post today (quota posts in all)
Publish(c) ==
    /\ \E g \in Gens : pc[g][c] # "none"
    /\ Published(Creators) < quota
    /\ feedN' = [feedN EXCEPT ![c] = @ + 1]
    /\ UNCHANGED <<aux, once, quota, state, disk, gstatus, cur, pc, branch, today_note_ids,
                   admitted, outcomes, dispatched, backlog, savepc, saving>>

\* ------------------------------------------------------- specifications
NoLocals == [g \in Gens |-> [c \in Creators |-> <<>>]]

InitCommon ==
    /\ feedN = [c \in Creators |-> 0]
    /\ state = [g \in Gens |-> EmptyDoc]
    /\ disk = save(EmptyDoc)
    /\ gstatus = [g \in Gens |-> IF g = 1 THEN "running" ELSE "unborn"]
    /\ cur = 1
    /\ branch = [g \in Gens |-> [c \in Creators |-> "none"]]
    /\ today_note_ids = NoLocals
    /\ admitted = NoLocals
    /\ outcomes = NoLocals
    /\ dispatched = [g \in Gens |-> [c \in Creators |-> [p \in Posts |-> 0]]]
    /\ backlog = [c \in Creators |-> {}]
    /\ savepc = "idle"
    /\ saving = [old |-> EmptyDoc, new |-> EmptyDoc]
    /\ inserted = [c \in Creators |-> <<>>]
    /\ today_key = Today
    /\ lastcall = NoCall
    /\ summ = NoSumm
    /\ post = NoPost
    /\ fetch = NoFetch
    /\ today_note = NoNote
    /\ resolve = NoResolve
    /\ listing = NoListing
    /\ request = NoRequest
    /\ reloader = NoReloader

\* poll-forever mode: start_monitoring creates one task per creator
Init ==
    /\ InitCommon
    /\ once = FALSE
    /\ quota = MaxPosts
    /\ pc = [g \in Gens |-> [c \in Creators |-> IF g = 1 THEN "resolve" ELSE "none"]]

Tick ==
    \E g \in Gens, c \in Creators :
        \/ ResolveUser(g, c)
        \/ ListNotes(g, c)
        \/ process_today_note(g, c)

Next ==
    \/ Tick
    \/ \E g \in Gens, c \in Creators : Wake(g, c)
    \/ \E c \in Creators : Publish(c)

Spec == Init /\ [][Next]_vars

\* ------------------------------------------- a post of the day before
\* The state left by the day before: the post OldPost was processed and
\* recorded under yesterday's key (by any subset of the creators' loops), and
\* the platform now lists it with a publish time of today.
OldPost == 2

InitResurfaced ==
    /\ \E S \in SUBSET Creators :
          /\ state = [g \in Gens |-> [c \in Creators |->
                        IF g = 1 /\ c \in S
                        THEN [seen |-> <<OldPost>>,
                              daily_seen |-> [k \in {Today - 1} |-> <<OldPost>>]]
                        ELSE EmptyEntry]]
          /\ disk = save(state[1])
    /\ once = FALSE
    /\ quota = SmallQuota + 1
    /\ pc = [g \in Gens |-> [c \in Creators |-> IF g = 1 THEN "resolve" ELSE "none"]]
    /\ feedN = [c \in Creators |-> 0]
    /\ gstatus = [g \in Gens |-> IF g = 1 THEN "running" ELSE "unborn"]
    /\ cur = 1
    /\ branch = [g \in Gens |-> [c \in Creators |-> "none"]]
    /\ today_note_ids = NoLocals
    /\ admitted = NoLocals
    /\ outcomes = NoLocals
    /\ dispatched = [g \in Gens |-> [c \in Creators |-> [p \in Posts |-> 0]]]
    /\ backlog = [c \in Creators |-> {}]
    /\ savepc = "idle"
    /\ saving = [old |-> EmptyDoc, new |-> EmptyDoc]
    /\ inserted = [c \in Creators |-> <<>>]
    /\ today_key = Today
    /\ lastcall = NoCall
    /\ summ = NoSumm
    /\ post = NoPost
    /\ fetch = NoFetch
    /\ today_note = NoNote
    /\ resolve = NoResolve
    /\ listing = NoListing
    /\ request = NoRequest
    /\ reloader = NoReloader

SpecResurfaced == InitResurfaced /\ [][Next]_vars

\* ------------------------------------------------------- run-once mode
\* start_monitoring(once=True): creators are processed one after another
InitOnce ==
    /\ InitCommon
    /\ once = TRUE
    /\ quota = MaxPosts
    /\ pc = [g \in Gens |-> [c \in Creators |->
                IF g # 1 THEN "none" ELSE IF c = 1 THEN "resolve" ELSE "waiting"]]

NextOnce ==
    \/ Tick
    \/ \E c \in Creators : Publish(c)

SpecOnce == InitOnce /\ [][NextOnce]_vars

\* ------------------------------------------------------- service mode
\* The gather of AIVideoBot.start_monitoring raises because the sibling
\* monitor task failed: the handler returns and monitor_task is done, while
\* the task running XHSMonitorService.start_monitoring is neither awaited nor
\* cancelled and its loops go on.
SiblingFails ==
    /\ gstatus[cur] = "running"
    /\ gstatus' = [gstatus EXCEPT ![cur] = "orphaned"]
    /\ UNCHANGED <<aux, once, quota, feedN, state, disk, cur, pc, branch, today_note_ids,
                   admitted, outcomes, dispatched, backlog, savepc, saving>>

\* a loop whose handler also catches the CancelledError thrown into its
\* await: a cancelled tick ends in the error backoff instead of the task ending
OnCancelSwallowed(at) == IF at \in {"resolve", "list", "note"} THEN "backoff" ELSE "cancelled"

\* task.cancel() throws CancelledError into the await the loop is parked at
\* ("resolve", "list", "note": a client call; "sleep", "backoff": asyncio.sleep);
\* it is a BaseException, so neither the except Exception of
\* monitor_single_creator nor the ones of the client catch it: the task ends
OnCancel(at) == "cancelled"

\* restart_services: _cancel_task(monitor_task) cancels the loops of the
\* current instance and waits for them, unless monitor_task is already done;
\* then a new AIVideoBot and monitor task are created, whose
\* XHSMonitorService loads its JsonState from the state file.
restart_services ==
    /\ cur < MaxGen
    /\ LET stop == gstatus[cur] = "running"
           clear(f, v) == [f EXCEPT ![cur] =
                              IF stop THEN [c \in Creators |->
                                  IF pc[cur][c] = "none" THEN @[c] ELSE v]
                              ELSE @]
       IN /\ gstatus' = [gstatus EXCEPT ![cur] = IF stop THEN "cancelled" ELSE @,
                                        ![cur + 1] = "running"]
          /\ pc' = [pc EXCEPT
                       ![cur] = [c \in Creators |->
                           IF stop /\ pc[cur][c] # "none"
                           THEN OnCancel(pc[cur][c]) ELSE pc[cur][c]],
                       ![cur + 1] = [c \in Creators |->
                           IF pc[cur][c] = "none" THEN "none" ELSE "resolve"]]
          /\ state' = [state EXCEPT ![cur + 1] = load(disk)]
          /\ branch' = clear(branch, "none")
          /\ today_note_ids' = clear(today_note_ids, <<>>)
          /\ admitted' = clear(admitted, <<>>)
          /\ outcomes' = clear(outcomes, <<>>)
    /\ cur' = cur + 1
    /\ UNCHANGED <<aux, once, quota, feedN, disk, dispatched, backlog, savepc, saving>>

NextService ==
    \/ Next
    \/ SiblingFails
    \/ restart_services

\* service mode with the first creator of the list configured
InitService ==
    /\ InitCommon
    /\ once = FALSE
    /\ quota = SmallQuota
    /\ pc = [g \in Gens |-> [c \in Creators |->
                IF g = 1 /\ c = 1 THEN "resolve" ELSE "none"]]

SpecService == InitService /\ [][NextService]_vars

\* service mode in which the monitor task only ends by being cancelled: every
\* restart is a configuration reload
NextReload ==
    \/ Next
    \/ restart_services

SpecReload == InitService /\ [][NextReload]_vars

\* ------------------------------------------------- JsonState.save, by steps
\* save writing the document in place
SavePathInPlace == "target"

\* the path save opens for writing
SavePath == "tmp"

\* add_daily_seen and mark_seen of one note, as at the end of _process_today_note
MarkNote(c, p) ==
    /\ savepc = "idle"
    /\ ~has_seen(state[1][c], p)
    /\ Published(Creators) < quota
    /\ feedN' = [feedN EXCEPT ![c] = @ + 1]
    /\ state' = [state EXCEPT ![1][c] = mark_seen(add_daily_seen(@, Today, p), p)]
    /\ UNCHANGED <<aux, once, quota, disk, gstatus, cur, pc, branch, today_note_ids, admitted,
                   outcomes, dispatched, backlog, savepc, saving>>

\* open(tmp, "w") creates or truncates the file
SaveOpen ==
    /\ savepc = "idle"
    /\ disk' = [disk EXCEPT ![SavePath] = FileOf(state[1], 0)]
    /\ saving' = [old |-> disk.target.doc, new |-> state[1]]
    /\ savepc' = "write"
    /\ UNCHANGED <<aux, once, quota, feedN, state, gstatus, cur, pc, branch, today_note_ids,
                   admitted, outcomes, dispatched, backlog>>

\* json.dump writes the next piece of the document
SaveWrite ==
    /\ savepc = "write" /\ disk[SavePath].n < SaveChunks
    /\ disk' = [disk EXCEPT ![SavePath].n = @ + 1]
    /\ UNCHANGED <<aux, once, quota, feedN, state, gstatus, cur, pc, branch, today_note_ids,
                   admitted, outcomes, dispatched, backlog, savepc, saving>>

\* the file is closed and os.replace(tmp, path) renames it over the target
SaveReplace ==
    /\ savepc = "write" /\ disk[SavePath].n = SaveChunks
    /\ disk' = [target |-> disk[SavePath], tmp |-> NoFile]
    /\ savepc' = "idle"
    /\ UNCHANGED <<aux, once, quota, feedN, state, gstatus, cur, pc, branch, today_note_ids,
                   admitted, outcomes, dispatched, backlog, saving>>

\* the process dies at any point and is started again: JsonState._load
Crash ==
    /\ state' = [state EXCEPT ![1] = load(disk)]
    /\ savepc' = "idle"
    /\ UNCHANGED <<aux, once, quota, feedN, disk, gstatus, cur, pc, branch, today_note_ids,
                   admitted, outcomes, dispatched, backlog, saving>>

InitSave ==
    /\ InitCommon
    /\ once = FALSE
    /\ quota = MaxPosts
    /\ pc = [g \in Gens |-> [c \in Creators |-> "none"]]

NextSave ==
    \/ \E c \in Creators, p \in Posts : MarkNote(c, p)
    \/ SaveOpen
    \/ SaveWrite
    \/ SaveReplace
    \/ Crash

SpecSave == InitSave /\ [][NextSave]_vars

\* ------------------------------------------------ JsonState.save raising
\* a failed save puts the memory back to what the file holds
after_failed_save_reload(mem, d) == [mem EXCEPT ![1] = load(d)]

\* save only reads self.state: an exception inside it leaves the memory alone
after_failed_save(mem, d) == mem

SaveFailed == [op |-> "save_failed", c |-> 0, ids |-> <<>>]

\* json.dump or os.replace raises (disk full, permission): the with block
\* closes the temporary file, which stays behind, and the exception leaves save
\* and the tick
SaveRaises ==
    /\ savepc = "write"
    /\ savepc' = "idle"
    /\ state' = after_failed_save(state, disk)
    /\ lastcall' = SaveFailed
    /\ UNCHANGED <<once, quota, feedN, disk, gstatus, cur, pc, branch, today_note_ids,
                   admitted, outcomes, dispatched, backlog, saving,
                   inserted, today_key, summ, post, fetch, today_note, resolve,
                   listing, request, reloader>>

NextSaveRetry ==
    \/ \E c \in Creators, p \in Posts : MarkNote(c, p)
    \/ SaveOpen
    \/ SaveWrite
    \/ SaveReplace
    \/ SaveRaises

SpecSaveRetry == InitSave /\ [][NextSaveRetry]_vars

\* ------------------------------------------------ JsonState on its own
\* The ledger operations of instance 1, called the way the monitor calls them:
\* with the creator's key and the current day key.  Creator 1 is exercised up
\* to the caps; every other creator's entry receives one call, from empty.
LedgerOpen(c) == c = 1 \/ state[1][c] = EmptyEntry

\* ids are handed out in the order 1, 2, 3, ...
FreshId(h) == Cardinality(Range(h)) + 1

JsonMarkSeen(c, id) ==
    /\ LedgerOpen(c)
    /\ id \in 1..FreshId(inserted[c])
    /\ LET absent == id \notin Range(state[1][c].seen)
       IN /\ absent => Len(inserted[c]) < SEEN_CAP + MaxEvict
          /\ inserted' = [inserted EXCEPT ![c] = IF absent THEN Append(@, id) ELSE @]
    /\ state' = [state EXCEPT ![1][c] = mark_seen(@, id)]
    /\ lastcall' = [op |-> "mark_seen", c |-> c, ids |-> <<>>]
    /\ UNCHANGED <<once, quota, feedN, disk, gstatus, cur, pc, branch, today_note_ids,
                   admitted, outcomes, dispatched, backlog, savepc, saving, today_key, summ, post, fetch, today_note, resolve,
                   listing, request, reloader>>

\* the ids of the posts that can be listed on day d
DayIds(d) == IF d = DAILY_KEYS_CAP THEN 1..MaxDailyIds ELSE {1}

JsonAddDailySeen(c, id) ==
    /\ LedgerOpen(c)
    /\ id \in DayIds(today_key)
    /\ state' = [state EXCEPT ![1][c] = add_daily_seen(@, today_key, id)]
    /\ lastcall' = [op |-> "add_daily_seen", c |-> c, ids |-> <<id>>]
    /\ UNCHANGED <<once, quota, feedN, disk, gstatus, cur, pc, branch, today_note_ids,
                   admitted, outcomes, dispatched, backlog, savepc, saving, inserted, today_key, summ, post, fetch, today_note, resolve,
                   listing, request, reloader>>

\* the non-empty id lists without repetition over a set of ids
RECURSIVE IdLists(_)
IdLists(S) ==
    IF S = {} THEN {}
    ELSE {<<x>> : x \in S}
         \cup UNION {{<<x>> \o t : t \in IdLists(S \ {x})} : x \in S}

JsonSetDailySeen(c, ids) ==
    /\ LedgerOpen(c)
    /\ ids \in IdLists(DayIds(today_key))
    /\ state' = [state EXCEPT ![1][c] = set_daily_seen(@, today_key, ids)]
    /\ lastcall' = [op |-> "set_daily_seen", c |-> c, ids |-> ids]
    /\ UNCHANGED <<once, quota, feedN, disk, gstatus, cur, pc, branch, today_note_ids,
                   admitted, outcomes, dispatched, backlog, savepc, saving, inserted, today_key, summ, post, fetch, today_note, resolve,
                   listing, request, reloader>>

\* midnight: date.today() moves on
DayPasses ==
    /\ today_key < DAILY_KEYS_CAP + MaxDayEvict
    /\ today_key' = today_key + 1
    /\ lastcall' = NoCall
    /\ UNCHANGED <<engine, inserted, summ, post, fetch, today_note, resolve,
                   listing, request, reloader>>

InitLedger ==
    /\ InitCommon
    /\ once = FALSE
    /\ quota = 0
    /\ pc = [g \in Gens |-> [c \in Creators |-> "none"]]

\* the all-time list: many mark_seen calls on one day, with daily calls between
NextSeen ==
    \/ \E c \in Creators, id \in 1..(SEEN_CAP + MaxEvict) : JsonMarkSeen(c, id)
    \/ \E c \in Creators, id \in 1..MaxDailyIds : JsonAddDailySeen(c, id)

SpecSeen == InitLedger /\ [][NextSeen]_vars

\* the daily map: set and add calls over more days than the cap keeps
NextDaily ==
    \/ \E c \in Creators, id \in 1..MaxDailyIds : JsonAddDailySeen(c, id)
    \/ \E c \in Creators, ids \in IdLists(1..MaxDailyIds) : JsonSetDailySeen(c, ids)
    \/ DayPasses

SpecDaily == InitLedger /\ [][NextDaily]_vars

\* ---------------------------------------- _summarize_images_in_batches
\* every image in one chunk whatever the size
chunk_images_whole(images, size) == IF images = <<>> THEN <<>> ELSE <<images>>

\* _chunk_images: images[i : i + size] for i in range(0, len(images), size)
RECURSIVE chunk_images(_, _)
chunk_images(images, size) ==
    IF size <= 0 THEN <<images>>
    ELSE IF images = <<>> THEN <<>>
    ELSE <<FirstN(images, size)>>
         \o chunk_images(SubSeq(images, Min(size, Len(images)) + 1, Len(images)), size)

\* max(1, self.image_batch_size)
batch_size(configured) == IF configured < 1 THEN 1 ELSE configured

\* the failed call's error text is returned as if it were a summary
summarize_images_error_text(outcome, k) == k

\* what _summarize_images returns for the k-th AI call: the text of the
\* completion (text k), or None when the call raised
summarize_images(outcome, k) == IF outcome = "ok" THEN k ELSE None

\* the context is given once and never replaced
carry_first(prev, summary) == IF prev # None THEN prev ELSE summary

\* "if summary: last_summary = summary; prev_summary = summary"
carry(prev, summary) == IF summary # None THEN summary ELSE prev

\* the call starts: the guard, the chunking and the choice of the path
SummarizeBegin(n, configured, summarizer) ==
    /\ summ.pc = "idle"
    /\ LET images == [k \in 1..n |-> k]
           batches == chunk_images(images, batch_size(configured))
       IN summ' = [NoSumm EXCEPT
              !.n = n, !.size = batch_size(configured), !.summarizer = summarizer,
              !.batches = IF n = 0 THEN <<>> ELSE batches,
              !.pc = IF n = 0 THEN "returned"
                     ELSE IF Len(batches) = 1 THEN "single" ELSE "loop"]
    /\ UNCHANGED <<engine, inserted, today_key, lastcall, post, fetch, today_note, resolve,
                   listing, request, reloader>>

\* one _summarize_images(batch, hint): no call without a summarizer or without
\* images, else one AI call whose prompt carries the hint, and its outcome
SummarizeBatch(outcome) ==
    /\ summ.pc \in {"single", "loop"}
    /\ LET batch == summ.batches[summ.i + 1]
           called == summ.summarizer /\ batch # <<>>
           k == Len(summ.calls) + 1
           summary == IF called THEN summarize_images(outcome, k) ELSE None
           calls == IF called
                    THEN Append(summ.calls, [images |-> batch, outcome |-> outcome,
                                             context |-> summ.prev_summary,
                                             output |-> summary])
                    ELSE summ.calls
           last == carry(summ.last_summary, summary)
           over == summ.i + 1 = Len(summ.batches)
       IN /\ ~called => outcome = "ok"
          /\ summ' = IF summ.pc = "single"
                     THEN [summ EXCEPT !.calls = calls, !.i = 1, !.result = summary,
                                       !.pc = "returned"]
                     ELSE [summ EXCEPT !.calls = calls, !.i = @ + 1,
                                       !.prev_summary = carry(@, summary),
                                       !.last_summary = last,
                                       !.result = IF over THEN last ELSE None,
                                       !.pc = IF over THEN "returned" ELSE "loop"]
    /\ UNCHANGED <<engine, inserted, today_key, lastcall, post, fetch, today_note, resolve,
                   listing, request, reloader>>

\* the caller has taken the result; the next post is summarized
SummarizeNext ==
    /\ summ.pc = "returned"
    /\ summ' = NoSumm
    /\ UNCHANGED <<engine, inserted, today_key, lastcall, post, fetch, today_note, resolve,
                   listing, request, reloader>>

NextSummary ==
    \/ \E n \in 0..MaxImages, configured \in 0..MaxBatch, summarizer \in BOOLEAN :
          SummarizeBegin(n, configured, summarizer)
    \/ \E outcome \in {"ok", "raise"} : SummarizeBatch(outcome)
    \/ SummarizeNext

SpecSummary == InitLedger /\ [][NextSummary]_vars

\* ------------------------------------- the images of a post and its cover
Urls == 1..MaxUrls

\* a "cover" value of the platform: absent, a string, or a dict with the keys
\* url, url_default, url_pre (keys) and info_list (the url of each entry)
NoCover == [kind |-> "none", keys |-> <<>>, info_list |-> <<>>]

RECURSIVE SeqsUpTo(_, _)
SeqsUpTo(S, n) ==
    IF n = 0 THEN {<<>>}
    ELSE SeqsUpTo(S, n - 1)
         \cup {Append(t, x) : t \in {u \in SeqsUpTo(S, n - 1) : Len(u) = n - 1}, x \in S}

Covers ==
    {NoCover}
    \cup {[kind |-> "str", keys |-> <<u>>, info_list |-> <<>>] : u \in Urls}
    \cup {[kind |-> "dict", keys |-> k, info_list |-> l] :
             k \in [1..3 -> Urls \cup {None}], l \in SeqsUpTo(Urls \cup {None}, 2)}

NoCard == [present |-> FALSE, image_list |-> <<>>, cover |-> NoCover]

\* the first true value of a sequence, None if there is none
RECURSIVE FirstTrue(_)
FirstTrue(s) ==
    IF s = <<>> THEN None ELSE IF Head(s) # None THEN Head(s) ELSE FirstTrue(Tail(s))

\* the url _drop_cover_image takes for a cover
cover_url(cover) ==
    IF cover.kind = "dict"
    THEN IF FirstTrue(cover.keys) # None THEN FirstTrue(cover.keys)
         ELSE IF cover.info_list # <<>>
              THEN FirstTrue(<<cover.info_list[Len(cover.info_list)], cover.info_list[1]>>)
              ELSE None
    ELSE IF cover.kind = "str" THEN cover.keys[1] ELSE None

\* _drop_cover_image(note, image_urls): note is the card the caller holds
drop_cover_image(card, image_urls) ==
    IF image_urls = <<>> THEN image_urls
    ELSE IF cover_url(card.cover) # None
         THEN FilterOut(image_urls, {cover_url(card.cover)})
         ELSE image_urls

\* appends the true values of s that are not yet in the list
RECURSIVE AppendNew(_, _)
AppendNew(images, s) ==
    IF s = <<>> THEN images
    ELSE AppendNew(IF Head(s) # None /\ Head(s) \notin Range(images)
                   THEN Append(images, Head(s)) ELSE images, Tail(s))

\* XHSClient.extract_image_urls: the url of every entry of image_list
extract_image_urls(card) == card.image_list

\* XHSClient.extract_image_urls_from_note: the card's list if there is a card,
\* else the entry's own list without repetitions, followed by the cover's urls
extract_image_urls_from_note(note) ==
    IF note.note_card.present THEN extract_image_urls(note.note_card)
    ELSE LET own == AppendNew(<<>>, note.image_list)
         IN IF note.cover.kind = "dict"
            THEN AppendNew(AppendNew(own, note.cover.info_list), note.cover.keys)
            ELSE IF note.cover.kind = "str" THEN AppendNew(own, note.cover.keys)
            ELSE own

has_full_image_list(note) ==
    note.note_card.image_list # <<>> \/ note.image_list # <<>>

\* the feed entries and detail cards a post with images imgs and cover value
\* cover can come as: the list is in the entry's card, in the entry itself, or
\* only in the detail card; the cover is in the entry, in the card, or in both
FeedEntry(path, imgs, cover, cover_at) ==
    [note_card |-> IF path = "feed_card"
                   THEN [present |-> TRUE, image_list |-> imgs,
                         cover |-> IF cover_at \in {"card", "both"} THEN cover ELSE NoCover]
                   ELSE NoCard,
     image_list |-> IF path = "feed_flat" THEN imgs ELSE <<>>,
     cover |-> IF cover_at \in {"entry", "both"} THEN cover ELSE NoCover]

DetailCard(imgs, cover, cover_at) ==
    [present |-> TRUE, image_list |-> imgs,
     cover |-> IF cover_at \in {"card", "both"} THEN cover ELSE NoCover]

\* _process_today_note from the choice of the image list to the digest, for a
\* post of the normal type: failed is the set of urls whose download fails
ProcessImages(path, imgs, cover, cover_at, failed) ==
    /\ post.pc = "idle"
    /\ path = "feed_flat" => cover_at = "entry"
    /\ LET note == FeedEntry(path, imgs, cover, cover_at)
           full == has_full_image_list(note)
           note_card == IF full THEN note.note_card ELSE DetailCard(imgs, cover, cover_at)
           image_urls == IF full THEN extract_image_urls_from_note(note)
                         ELSE extract_image_urls(note_card)
           kept == drop_cover_image(note_card, image_urls)
           images == FilterOut(kept, failed)
       IN post' = [pc |-> IF image_urls = <<>> THEN "skipped" ELSE "sent",
                   path |-> IF full THEN path ELSE "detail",
                   cover_url |-> cover_url(cover),
                   listed |-> image_urls,
                   images |-> IF image_urls = <<>> THEN <<>> ELSE images,
                   refs |-> IF image_urls = <<>> THEN <<>>
                            ELSE FirstN(images, IMAGE_BATCH_SIZE)]
    /\ UNCHANGED <<engine, inserted, today_key, lastcall, summ, fetch, today_note, resolve,
                   listing, request, reloader>>

NextPost ==
    /\ post.pc # "idle"
    /\ post' = NoPost
    /\ UNCHANGED <<engine, inserted, today_key, lastcall, summ, fetch, today_note, resolve,
                   listing, request, reloader>>

NextCover ==
    \/ \E path \in {"feed_card", "feed_flat", "detail"}, imgs \in SeqsUpTo(Urls, MaxListed),
          cover \in Covers, cover_at \in {"entry", "card", "both"}, failed \in SUBSET Urls :
            ProcessImages(path, imgs, cover, cover_at, failed)
    \/ NextPost

SpecCover == InitLedger /\ [][NextCover]_vars

\* ------------------------------------------------ _fetch_note_detail_card
\* a security token is a string over these characters; a url query is a
\* sequence of characters, key names and percent escapes
Chars == {"a", "&", "="}

Tokens == SeqsUpTo(Chars, MaxToken)

\* urllib.parse.quote(s, safe="")
RECURSIVE quote(_)
quote(str) ==
    IF str = <<>> THEN <<>>
    ELSE <<IF Head(str) = "&" THEN "%26" ELSE IF Head(str) = "=" THEN "%3D" ELSE Head(str)>>
         \o quote(Tail(str))

\* urllib.parse.unquote(s)
RECURSIVE unquote(_)
unquote(str) ==
    IF str = <<>> THEN <<>>
    ELSE <<IF Head(str) = "%26" THEN "&" ELSE IF Head(str) = "%3D" THEN "=" ELSE Head(str)>>
         \o unquote(Tail(str))

\* the query of XHSClient.build_note_url(note_id, xsec_token, xsec_source)
build_note_url(xsec_token, xsec_source) ==
    <<"xsec_token", "=">> \o quote(xsec_token)
        \o <<"&", "xsec_source", "=">> \o quote(xsec_source)

\* the index of the first x in s, 0 if there is none
First(s, x) ==
    IF \E i \in 1..Len(s) : s[i] = x
    THEN CHOOSE i \in 1..Len(s) : s[i] = x /\ \A j \in 1..(i - 1) : s[j] # x
    ELSE 0

\* query.split("&")
RECURSIVE Split(_, _)
Split(str, sep) ==
    IF First(str, sep) = 0 THEN <<str>>
    ELSE <<SubSeq(str, 1, First(str, sep) - 1)>>
         \o Split(SubSeq(str, First(str, sep) + 1, Len(str)), sep)

\* get_note_info: kv_dist.get(key) after the loop over the query's parts
\* (None if no part has the key; a later part replaces an earlier one)
RECURSIVE QueryValue(_, _, _)
QueryValue(kvs, key, found) ==
    IF kvs = <<>> THEN found
    ELSE LET kv == Head(kvs)
             eq == First(kv, "=")
         IN QueryValue(Tail(kvs), key,
                IF eq # 0 /\ SubSeq(kv, 1, eq - 1) = <<key>>
                THEN unquote(SubSeq(kv, eq + 1, Len(kv))) ELSE found)

query_token(url) ==
    LET v == QueryValue(IF url = <<>> THEN <<>> ELSE Split(url, "&"), "xsec_token", <<>>)
    IN v

\* the retry keeps the url of the first attempt
retry_url_unchanged(url, token, source) == url

\* retry_url = build_note_url(note_id, token, source or "pc_search")
retry_url(url, token, source) == build_note_url(token, source)

\* "items = detail[data][items]; if not items: return None;
\*  return items[0].get(note_card) or {}"
detail_result(outcome) ==
    IF outcome = "ok_items" THEN "card"
    ELSE IF outcome = "ok_nocard" THEN "empty_card" ELSE "None"

\* _process_today_note builds note_url and awaits the first get_note_info
FetchBegin(token) ==
    /\ fetch.pc = "idle"
    /\ fetch' = [NoFetch EXCEPT !.pc = "info1",
                                !.url = build_note_url(token, <<"pc_search">>)]
    /\ UNCHANGED <<engine, inserted, today_key, lastcall, summ, post, today_note, resolve,
                   listing, request, reloader>>

\* get_note_info(url) returns: without a token in the url it fails without a
\* request, else the response reports failure, or success with a note card,
\* with an item lacking the card, or with no item
GetNoteInfo(outcome) ==
    /\ fetch.pc \in {"info1", "info2"}
    /\ query_token(fetch.url) = <<>> => outcome = "fail"
    /\ LET attempts == Append(fetch.attempts,
                               [token |-> query_token(fetch.url), outcome |-> outcome])
       IN fetch' =
            IF outcome = "fail"
            THEN IF fetch.pc = "info1"
                 THEN [fetch EXCEPT !.attempts = attempts, !.pc = "refresh"]
                 ELSE [fetch EXCEPT !.attempts = attempts, !.pc = "returned",
                                    !.result = "None"]
            ELSE [fetch EXCEPT !.attempts = attempts, !.pc = "returned",
                               !.result = detail_result(outcome)]
    /\ UNCHANGED <<engine, inserted, today_key, lastcall, summ, post, today_note, resolve,
                   listing, request, reloader>>

\* get_note_xsec_token returns: no token found in the page (or the request
\* raised), or the token and source found
GetNoteXsecToken(ok2, token) ==
    /\ fetch.pc = "refresh"
    /\ token # <<>>
    /\ fetch' = IF ok2
                THEN [fetch EXCEPT !.refreshes = Append(@, token), !.pc = "info2",
                                   !.url = retry_url(@, token, <<"pc_search">>)]
                ELSE [fetch EXCEPT !.refreshes = Append(@, <<>>), !.pc = "returned",
                                   !.result = "None"]
    /\ UNCHANGED <<engine, inserted, today_key, lastcall, summ, post, today_note, resolve,
                   listing, request, reloader>>

\* the caller has taken the result; the next post without a full image list
FetchNext ==
    /\ fetch.pc = "returned"
    /\ fetch' = NoFetch
    /\ UNCHANGED <<engine, inserted, today_key, lastcall, summ, post, today_note, resolve,
                   listing, request, reloader>>

NextFetch ==
    \/ \E token \in Tokens : FetchBegin(token)
    \/ \E outcome \in {"fail", "ok_items", "ok_nocard", "ok_empty"} : GetNoteInfo(outcome)
    \/ \E ok2 \in BOOLEAN, token \in Tokens : GetNoteXsecToken(ok2, token)
    \/ FetchNext

SpecFetch == InitLedger /\ [][NextFetch]_vars

\* ------------------------------------------------ _process_today_note
\* One today post (NoteId) per creator of instance 1, taken through
\* _process_today_note await by await and through the ticks that admit it: the
\* first-encounter branch of process_creator processes the post as long as
\* today's set of the creator is empty.
NoteId == 1

NoteTypes == {"absent", "normal", "video"}

\* "a or b" on two type values
OrType(a, b) == IF a # "absent" THEN a ELSE b

\* add_daily_seen(red_id, today_key, note_id); mark_seen(red_id, note_id)
MarkBoth(e, id) == mark_seen(add_daily_seen(e, Today, id), id)

InBoth(e, id) == has_seen(e, id) /\ id \in Range(get_daily_seen(e, Today))

\* only a post without images is left aside
NonActionableWithoutImages(type, image_urls) == image_urls = 0

\* "if note_type and note_type != normal" or "if not image_urls"
NonActionable(type, image_urls) ==
    (type # "absent" /\ type # "normal") \/ image_urls = 0

\* from the two tests on type and images to the return or to the next await
Classify(nt) ==
    IF NonActionable(nt.type, nt.image_urls)
    THEN /\ state' = [state EXCEPT ![1][nt.c] = MarkBoth(@, NoteId)]
         /\ today_note' = [nt EXCEPT !.pc = "returned", !.skipped = @ \cup {nt.c}]
    ELSE /\ today_note' = [nt EXCEPT !.pc = "download"]
         /\ UNCHANGED state

\* the tick admits the post; _process_today_note runs up to its first await:
\* an entry with a full image list (n urls extracted) is classified at once,
\* any other entry waits for _fetch_note_detail_card
NoteBegin(c, feed_type, full, n) ==
    /\ today_note.pc = "idle"
    /\ get_daily_seen(state[1][c], Today) = <<>>
    /\ ~full => n = 0
    /\ LET nt == [today_note EXCEPT !.c = c, !.type = feed_type, !.image_urls = n,
                                    !.detail = IF full THEN "feed" ELSE "none"]
       IN IF full THEN Classify(nt)
          ELSE today_note' = [nt EXCEPT !.pc = "detail"] /\ UNCHANGED state
    /\ UNCHANGED <<once, quota, feedN, disk, gstatus, cur, pc, branch, today_note_ids,
                   admitted, outcomes, dispatched, backlog, savepc, saving,
                   inserted, today_key, lastcall, summ, post, fetch, resolve,
                   listing, request, reloader>>

\* _fetch_note_detail_card returns None, an empty card or a card (with its
\* type and n image urls): "if detail_card:" takes type and images from it
NoteDetail(result, card_type, n) ==
    /\ today_note.pc = "detail"
    /\ result \in {"None", "empty_card"} => card_type = "absent" /\ n = 0
    /\ Classify([today_note EXCEPT
                    !.detail = result,
                    !.type = IF result = "card" THEN OrType(card_type, @) ELSE @,
                    !.image_urls = IF result = "card" THEN n ELSE 0])
    /\ UNCHANGED <<once, quota, feedN, disk, gstatus, cur, pc, branch, today_note_ids,
                   admitted, outcomes, dispatched, backlog, savepc, saving,
                   inserted, today_key, lastcall, summ, post, fetch, resolve,
                   listing, request, reloader>>

\* _drop_cover_image takes dropped urls off the list; _download_images
\* returns the k images it could save, or os.makedirs raises
NoteDownload(raises, dropped, k) ==
    /\ today_note.pc = "download"
    /\ dropped <= today_note.image_urls
    /\ k <= today_note.image_urls - dropped
    /\ today_note' = IF raises THEN [today_note EXCEPT !.pc = "raised"]
                     ELSE [today_note EXCEPT !.images = k, !.pc = "summarize"]
    /\ UNCHANGED <<engine, inserted, today_key, lastcall, summ, post, fetch, resolve,
                   listing, request, reloader>>

\* the loop of _summarize_images_in_batches over the outcomes of its AI calls
RECURSIVE BatchLoop(_, _, _)
BatchLoop(outs, k, last) ==
    IF k > Len(outs) THEN last
    ELSE BatchLoop(outs, k + 1, carry(last, summarize_images(outs[k], k)))


\* _summarize_images_in_batches returns a text or None, never raises: the
\* digest is formatted and the sink is awaited
after_summarize(summary) == "dispatch"

\* _summarize_images_in_batches(images) with the outcomes outs of its AI calls
\* (none without images or without a summarizer), then the digest is formatted
NoteSummarize(configured, summarizer, outs) ==
    /\ today_note.pc = "summarize"
    /\ LET images == [i \in 1..today_note.images |-> i]
           batches == chunk_images(images, batch_size(configured))
           calls == IF images = <<>> \/ ~summarizer THEN 0 ELSE Len(batches)
           summary == IF calls = 0 THEN None
                      ELSE IF calls = 1 THEN summarize_images(outs[1], 1)
                      ELSE BatchLoop(outs, 1, None)
       IN /\ Len(outs) = calls
          /\ today_note' = [today_note EXCEPT
                               !.ai_calls = calls,
                               !.summary = summary,
                               !.digest = [formatted |-> TRUE,
                                           summary_section |-> summary # None,
                                           refs |-> Len(FirstN(images, configured))],
                               !.pc = after_summarize(summary)]
    /\ UNCHANGED <<engine, inserted, today_key, lastcall, summ, post, fetch, resolve,
                   listing, request, reloader>>


\* send_card_message returns (True or False) or raises
after_dispatch(sink) == IF sink = "raise" THEN "raised" ELSE "returned"

\* "if self.feishu_bot: await send_card_message(...)", then both marks
NoteDispatch(sink) ==
    /\ today_note.pc = "dispatch"
    /\ LET c == today_note.c
           sends == IF sink = "no_bot" THEN today_note.sends
                    ELSE [today_note.sends EXCEPT ![c] = Min(@ + 1, 2)]
       IN /\ today_note' = [today_note EXCEPT !.sink = sink, !.sends = sends,
                                             !.pc = after_dispatch(sink)]
          /\ state' = IF after_dispatch(sink) = "returned"
                      THEN [state EXCEPT ![1][c] = MarkBoth(@, NoteId)] ELSE state
    /\ UNCHANGED <<once, quota, feedN, disk, gstatus, cur, pc, branch, today_note_ids,
                   admitted, outcomes, dispatched, backlog, savepc, saving,
                   inserted, today_key, lastcall, summ, post, fetch, resolve,
                   listing, request, reloader>>

\* the rest of the tick: after the return set_daily_seen and save, after an
\* exception the handler of monitor_single_creator and nothing else
NoteEnd ==
    /\ today_note.pc \in {"returned", "raised"}
    /\ IF today_note.pc = "returned"
       THEN /\ state' = [state EXCEPT ![1][today_note.c] =
                            set_daily_seen(@, Today, <<NoteId>>)]
            /\ disk' = save(state'[1])
       ELSE UNCHANGED <<state, disk>>
    /\ today_note' = [NoNote EXCEPT !.skipped = today_note.skipped,
                                    !.sends = today_note.sends]
    /\ UNCHANGED <<once, quota, feedN, gstatus, cur, pc, branch, today_note_ids,
                   admitted, outcomes, dispatched, backlog, savepc, saving,
                   inserted, today_key, lastcall, summ, post, fetch, resolve,
                   listing, request, reloader>>

NextNote ==
    \/ \E c \in Creators, feed_type \in NoteTypes, full \in BOOLEAN, n \in 0..MaxNoteImages :
          NoteBegin(c, feed_type, full, n)
    \/ \E result \in {"None", "empty_card", "card"}, card_type \in NoteTypes,
          n \in 0..MaxNoteImages : NoteDetail(result, card_type, n)
    \/ \E raises \in BOOLEAN, dropped \in 0..1, k \in 0..MaxNoteImages :
          NoteDownload(raises, dropped, k)
    \/ \E configured \in {1, IMAGE_BATCH_SIZE}, summarizer \in BOOLEAN,
          outs \in SeqsUpTo({"ok", "raise"}, MaxNoteImages) :
          NoteSummarize(configured, summarizer, outs)
    \/ \E sink \in {"no_bot", "ok", "fail", "raise"} : NoteDispatch(sink)
    \/ NoteEnd

SpecNote == InitLedger /\ [][NextNote]_vars

\* ----------------------------------------------------- _resolve_user
\* A creator reference is a string over these pieces: hex characters, a
\* character that is not lowercase hex, "?", and the profile url marker
\* "xiaohongshu.com/user/profile/" taken as one piece.
HexChars == {"a", "0"}

Marker == "xiaohongshu.com/user/profile/"

\* the index of the last x in s, 0 if there is none
LastIndex(s, x) ==
    IF \E i \in 1..Len(s) : s[i] = x
    THEN CHOOSE i \in 1..Len(s) : s[i] = x /\ \A j \in (i + 1)..Len(s) : s[j] # x
    ELSE 0

\* _extract_profile_id: raw.split(marker)[-1].split("?")[0] if the marker occurs
extract_profile_id(raw) ==
    IF raw = <<>> THEN <<>>
    ELSE IF Marker \in Range(raw)
         THEN LET tail == SubSeq(raw, LastIndex(raw, Marker) + 1, Len(raw))
              IN IF First(tail, "?") = 0 THEN tail
                 ELSE SubSeq(tail, 1, First(tail, "?") - 1)
         ELSE raw

\* every reference is taken for a search term
is_profile_id_never(raw) == FALSE

\* _is_profile_id: re.fullmatch("[0-9a-f]{24}", raw)
is_profile_id(raw) ==
    Len(raw) = PROFILE_ID_LEN /\ \A i \in 1..Len(raw) : raw[i] \in HexChars

\* the references tried: a bare id or a profile url with or without a query,
\* the id of 23 to 24 + MaxExtra characters, all hex or with one that is not
Body(k, bad) == [i \in 1..k |-> IF i = bad THEN "G" ELSE IF i % 2 = 1 THEN "a" ELSE "0"]

Refs ==
    {prefix \o Body(k, bad) \o suffix :
        prefix \in {<<>>, <<"h", Marker>>},
        k \in (PROFILE_ID_LEN - 1)..(PROFILE_ID_LEN + MaxExtra),
        bad \in {0, 1},
        suffix \in {<<>>, <<"?", "a">>}}

\* what the search endpoint can list: up to MaxUsers users, each with the
\* red_id asked for or another one, and with or without an id
Users == SeqsUpTo([red_id : {"same", "other"}, id : {<<>>, <<"u">>},
                   xsec_token : {<<>>, <<"t">>}], MaxUsers)

\* the user with the red_id asked for, else the first one
target(users) ==
    IF \E i \in 1..Len(users) : users[i].red_id = "same"
    THEN users[CHOOSE i \in 1..Len(users) :
                   /\ users[i].red_id = "same"
                   /\ \A j \in 1..(i - 1) : users[j].red_id # "same"]
    ELSE users[1]

\* the dict returned on the direct path: "xsec_token": token or ""
direct_identity(raw_id, ok, token) ==
    [found |-> TRUE, user_id |-> raw_id, xsec_token |-> IF ok THEN token ELSE <<>>]

\* "if not user or not user.get(user_id): return" of process_creator
goes_on_to_list(user) == user.found /\ user.user_id # <<>>

Call(op, arg) == [op |-> op, arg |-> arg]

\* the name is searched whatever the first search found
searches_name_always(users, name, raw_id) == TRUE

\* "if not users and creator.name and creator.name != raw_id"
searches_name(users, name, raw_id) == users = <<>> /\ name # <<>> /\ name # raw_id

\* process_creator awaits _resolve_user: the reference is normalized and the
\* first call (profile page or search) is awaited
ResolveBegin(ref, name_kind) ==
    /\ resolve.pc = "idle"
    /\ LET raw_id == extract_profile_id(ref)
           name == IF name_kind = "empty" THEN <<>>
                   ELSE IF name_kind = "same" THEN raw_id ELSE <<"n">>
       IN resolve' = [NoResolve EXCEPT
              !.ref = ref, !.raw_id = raw_id, !.name = name,
              !.pc = IF is_profile_id(raw_id) THEN "profile" ELSE "search1",
              !.calls = IF is_profile_id(raw_id)
                        THEN <<Call("get_profile_xsec_token", raw_id)>>
                        ELSE <<Call("search_user", raw_id)>>]
    /\ UNCHANGED <<engine, inserted, today_key, lastcall, summ, post, fetch, today_note,
                   listing, request, reloader>>

\* get_profile_xsec_token returns: the token found in the page, or failure
\* (no token in the page, or the request raised) with an empty token
GetProfileXsecToken(ok, token) ==
    /\ resolve.pc = "profile"
    /\ token # <<>>
    /\ LET user == direct_identity(resolve.raw_id, ok, token)
       IN resolve' = [resolve EXCEPT !.pc = "returned", !.token_found = ok,
                                     !.result = user, !.lists = goes_on_to_list(user)]
    /\ UNCHANGED <<engine, inserted, today_key, lastcall, summ, post, fetch, today_note,
                   listing, request, reloader>>

\* search_user returns: failure, or the users found; without users the name
\* is searched once if there is one and it differs, else None is returned
SearchUser(ok, found) ==
    /\ resolve.pc \in {"search1", "search2"}
    /\ LET users == IF ok THEN found ELSE <<>>
           again == /\ resolve.pc = "search1"
                    /\ searches_name(users, resolve.name, resolve.raw_id)
           user == IF users = <<>> THEN NoIdentity
                   ELSE [found |-> TRUE, user_id |-> target(users).id,
                         xsec_token |-> target(users).xsec_token]
       IN resolve' =
            IF again
            THEN [resolve EXCEPT !.pc = "search2", !.users = Append(@, users),
                                 !.calls = Append(@, Call("search_user", resolve.name))]
            ELSE [resolve EXCEPT !.pc = "returned", !.users = Append(@, users),
                                 !.result = user, !.lists = goes_on_to_list(user)]
    /\ UNCHANGED <<engine, inserted, today_key, lastcall, summ, post, fetch, today_note,
                   listing, request, reloader>>

\* the tick has gone on (or ended); the next tick resolves again
ResolveNext ==
    /\ resolve.pc = "returned"
    /\ resolve' = NoResolve
    /\ UNCHANGED <<engine, inserted, today_key, lastcall, summ, post, fetch, today_note,
                   listing, request, reloader>>

NextResolve ==
    \/ \E ref \in Refs, name_kind \in {"empty", "same", "other"} : ResolveBegin(ref, name_kind)
    \/ \E ok \in BOOLEAN, token \in {<<"t">>} : GetProfileXsecToken(ok, token)
    \/ \E ok \in BOOLEAN, found \in Users : SearchUser(ok, found)
    \/ ResolveNext

SpecResolve == InitLedger /\ [][NextResolve]_vars

\* ------------------------------- process_creator, the today filter
\* the timestamps of this section: day * DayLen + the post's place in the day;
\* 0 is the epoch, and None (a key that is missing) is the same false value
DayLen == MaxListed + 1

stamp(day, p) == day * DayLen + p

\* what the list endpoint can return: up to MaxListed entries, each with a
\* time in note_card, a time of its own, both or neither; a time is of the
\* day before or of today
Listings ==
    UNION {{[k \in 1..Len(ids) |->
                [note_id |-> ids[k],
                 card_time |-> IF ct[k] = 0 THEN None ELSE stamp(Today - 2 + ct[k], ids[k]),
                 time |-> IF t[k] = 0 THEN None ELSE stamp(Today - 2 + t[k], ids[k])]] :
              ct \in [1..Len(ids) -> 0..2], t \in [1..Len(ids) -> 0..2]} :
           ids \in IdLists(1..MaxListed) \cup {<<>>}}

\* note_card.get("time") or note.get("time") or 0
time_of(n) == IF n.card_time # None THEN n.card_time ELSE IF n.time # None THEN n.time ELSE 0

\* _is_today: datetime.fromtimestamp(ms / 1000).date() == date.today()
is_today(timestamp_ms) == timestamp_ms \div DayLen = Today

\* every listed entry taken for one of today
today_eligible_any(n) == TRUE

\* "if note_time and self._is_today(note_time)"
today_eligible(n) == time_of(n) # 0 /\ is_today(time_of(n))

\* the ids of the entries of today, in list order
today_ids(notes) ==
    LET kept == SelectSeq(notes, today_eligible)
    IN [k \in 1..Len(kept) |-> kept[k].note_id]

\* a tick receives the list: the filter, the early return, the baseline's
\* branch and its candidates
ListingBegin(notes) ==
    /\ listing.pc = "idle"
    /\ LET ids == today_ids(notes)
           seen_today == get_daily_seen(listing.e, Today)
           adm == IF seen_today = <<>> THEN initial_notes(ids)
                  ELSE new_notes(ids, seen_today)
       IN listing' = [listing EXCEPT
              !.notes = notes, !.today_note_ids = ids, !.i = 0,
              !.branch = IF ids = <<>> THEN "none"
                         ELSE IF seen_today = <<>> THEN "first" ELSE "incr",
              !.admitted = IF ids = <<>> THEN <<>> ELSE adm,
              !.pc = IF ids = <<>> \/ adm = <<>> THEN "returned" ELSE "note"]
    /\ UNCHANGED <<engine, inserted, today_key, lastcall, summ, post, fetch, today_note,
                   resolve, request, reloader>>

\* the next candidate: skipped as seen on the incremental branch, else
\* processed (dispatched and marked, or an exception that ends the tick);
\* behind the last one of a first-encounter tick the baseline is set
ListingNote(outcome) ==
    /\ listing.pc = "note"
    /\ LET p == listing.admitted[listing.i + 1]
           skip == listing.branch = "incr" /\ has_seen(listing.e, p)
           last == listing.i + 1 = Len(listing.admitted)
           marked == IF skip THEN add_daily_seen(listing.e, Today, p)
                     ELSE mark_seen(add_daily_seen(listing.e, Today, p), p)
       IN /\ skip => outcome = "sent"
          /\ listing' =
               IF ~skip /\ outcome = "raise"
               THEN [listing EXCEPT !.pc = "raised"]
               ELSE [listing EXCEPT
                        !.i = @ + 1,
                        !.sent = IF skip THEN @ ELSE @ \cup {p},
                        !.e = IF last /\ listing.branch = "first"
                              THEN set_daily_seen(marked, Today, listing.today_note_ids)
                              ELSE marked,
                        !.pc = IF last THEN "returned" ELSE "note"]
    /\ UNCHANGED <<engine, inserted, today_key, lastcall, summ, post, fetch, today_note,
                   resolve, request, reloader>>

\* the loop sleeps and the next tick lists again, on the same JsonState
ListingNext ==
    /\ listing.pc \in {"returned", "raised"}
    /\ listing' = [NoListing EXCEPT !.e = listing.e, !.sent = listing.sent]
    /\ UNCHANGED <<engine, inserted, today_key, lastcall, summ, post, fetch, today_note,
                   resolve, request, reloader>>

NextListing ==
    \/ \E notes \in Listings : ListingBegin(notes)
    \/ \E outcome \in {"sent", "raise"} : ListingNote(outcome)
    \/ ListingNext

SpecListing == InitLedger /\ [][NextListing]_vars

\* ------------------------------------------------- XHSClient._request
\* how one pass of the try block can end: the signing raises before anything
\* is sent, the HTTP call raises, resp.json() raises, or the JSON is a dict
\* with success true, one with success false, or anything else
Raises == {"sign_raise", "http_raise", "json_raise"}

Answers == {"success", "failure", "other"}

\* a failed answer is retried whichever attempt gave it
after_attempt_retry_all(attempt, outcome) ==
    IF outcome \in Raises \cup {"failure"}
    THEN IF attempt = 0 THEN "sleep" ELSE "empty"
    ELSE "return"

\* what follows pass number attempt of "for attempt in range(2)": the retry
\* delay and the next pass, the return of the JSON, or the return of {}
after_attempt(attempt, outcome) ==
    IF outcome \in Raises
    THEN IF attempt = 0 THEN "sleep" ELSE "empty"
    ELSE IF outcome = "failure" /\ attempt = 0 THEN "sleep" ELSE "return"

\* an API wrapper calls _request
RequestBegin(method, params) ==
    /\ request.pc = "idle"
    /\ request' = [NoRequest EXCEPT !.pc = "attempt", !.method = method, !.params = params]
    /\ UNCHANGED <<engine, inserted, today_key, lastcall, summ, post, fetch, today_note,
                   resolve, listing, reloader>>

\* one pass of the loop body, up to its return, its break or its sleep
RequestAttempt(outcome) ==
    /\ request.pc = "attempt"
    /\ LET then == after_attempt(request.attempt, outcome)
       IN request' = [request EXCEPT
              !.outcomes = Append(@, outcome),
              !.http = IF outcome = "sign_raise" THEN @ ELSE @ + 1,
              !.sleeps = IF then = "sleep" THEN @ + 1 ELSE @,
              !.pc = IF then = "sleep" THEN "sleep" ELSE "returned",
              !.result = IF then = "return" THEN outcome
                         ELSE IF then = "empty" THEN "empty" ELSE @]
    /\ UNCHANGED <<engine, inserted, today_key, lastcall, summ, post, fetch, today_note,
                   resolve, listing, reloader>>

\* asyncio.sleep(retry_delay) ends: continue with the next attempt
RequestRetry ==
    /\ request.pc = "sleep"
    /\ request' = [request EXCEPT !.pc = "attempt", !.attempt = @ + 1]
    /\ UNCHANGED <<engine, inserted, today_key, lastcall, summ, post, fetch, today_note,
                   resolve, listing, reloader>>

\* the wrapper has the response; the next API call
RequestNext ==
    /\ request.pc = "returned"
    /\ request' = NoRequest
    /\ UNCHANGED <<engine, inserted, today_key, lastcall, summ, post, fetch, today_note,
                   resolve, listing, reloader>>

NextRequest ==
    \/ \E method \in {"GET", "POST"}, params \in BOOLEAN : RequestBegin(method, params)
    \/ \E outcome \in Raises \cup Answers : RequestAttempt(outcome)
    \/ RequestRetry
    \/ RequestNext

SpecRequest == InitLedger /\ [][NextRequest]_vars

\* ---------------------------------------------- main, the service loop
\* the event is cleared behind the restart instead of before it
create_clearing(r, panel) ==
    [r EXCEPT !.replaced = r.monitor_task, !.monitor_task = "running",
              !.panel_task = panel, !.reload_task = "waiting", !.pc = "wait",
              !.event = FALSE]

\* the end of restart_services and the top of the loop: a new bot, a new
\* panel task (which returns at once when the port is taken), a new monitor
\* task, and a new task waiting for the event
create(r, panel) ==
    [r EXCEPT !.replaced = r.monitor_task, !.monitor_task = "running",
              !.panel_task = panel, !.reload_task = "waiting", !.pc = "wait"]

\* _cancel_task(panel_task): nothing to wait for when the task is done
cancel_panel(r, panel) ==
    IF r.panel_task = "running" THEN [r EXCEPT !.pc = "cancel_panel"] ELSE create(r, panel)

\* _cancel_task(monitor_task): nothing to wait for when the task is done
cancel_monitor(r, panel) ==
    IF r.monitor_task = "running" THEN [r EXCEPT !.pc = "cancel_monitor"]
    ELSE cancel_panel(r, panel)

\* restart_services up to its first suspension: reload_config comes first
restart_run(r, reason, panel) ==
    cancel_monitor([r EXCEPT !.unserved = FALSE, !.reason = reason], panel)

\* service mode starts: the event, the panel task, the monitor task, the loop
ServiceStart ==
    /\ reloader.pc = "idle"
    /\ reloader' = [NoReloader EXCEPT !.pc = "wait", !.monitor_task = "running",
                                      !.panel_task = "running", !.reload_task = "waiting"]
    /\ UNCHANGED <<engine, inserted, today_key, lastcall, summ, post, fetch, today_note,
                   resolve, listing, request>>

\* a handler of the panel has written a change and calls trigger_reload; it
\* runs while main is suspended
trigger_reload ==
    /\ reloader.pc \in {"wait", "cancel_reload", "cancel_monitor", "cancel_panel", "sleep"}
    /\ reloader.panel_task = "running"
    /\ reloader' = [reloader EXCEPT !.event = TRUE, !.unserved = TRUE]
    /\ UNCHANGED <<engine, inserted, today_key, lastcall, summ, post, fetch, today_note,
                   resolve, listing, request>>

\* the task of reload_event.wait() runs and finds the event set
ReloadTaskDone ==
    /\ reloader.reload_task = "waiting" /\ reloader.event
    /\ reloader.pc \in {"wait", "cancel_monitor", "cancel_panel", "sleep"}
    /\ reloader' = [reloader EXCEPT !.reload_task = "done"]
    /\ UNCHANGED <<engine, inserted, today_key, lastcall, summ, post, fetch, today_note,
                   resolve, listing, request>>

\* start_monitoring returns by itself (its handler caught an exception)
MonitorEnds ==
    /\ reloader.pc \in {"wait", "cancel_reload", "sleep"}
    /\ reloader.monitor_task = "running"
    /\ reloader' = [reloader EXCEPT !.monitor_task = "done"]
    /\ UNCHANGED <<engine, inserted, today_key, lastcall, summ, post, fetch, today_note,
                   resolve, listing, request>>

\* asyncio.wait returns: with the event set it is cleared, the waiting task
\* is cancelled and the services restart; else a monitor task that is done is
\* restarted behind a sleep of 30 s, unless it was cancelled
MainWake(panel) ==
    /\ reloader.pc = "wait"
    /\ reloader.reload_task = "done" \/ reloader.monitor_task # "running"
    /\ reloader' =
         IF reloader.event
         THEN IF reloader.reload_task = "done"
              THEN restart_run([reloader EXCEPT !.event = FALSE], "config-change", panel)
              ELSE [reloader EXCEPT !.event = FALSE, !.pc = "cancel_reload"]
         ELSE IF reloader.monitor_task = "cancelled"
              THEN [reloader EXCEPT !.pc = "stopped"]
              ELSE [reloader EXCEPT !.pc = "sleep"]
    /\ UNCHANGED <<engine, inserted, today_key, lastcall, summ, post, fetch, today_note,
                   resolve, listing, request>>

\* the await of one of main's suspensions ends: the cancelled task has
\* ended (_cancel_task returns), or the 30 s have passed
MainResumes(panel) ==
    /\ reloader.pc \in {"cancel_reload", "cancel_monitor", "cancel_panel", "sleep"}
    /\ reloader' =
         CASE reloader.pc = "cancel_reload" ->
                  restart_run([reloader EXCEPT !.reload_task = "cancelled"],
                              "config-change", panel)
           [] reloader.pc = "sleep" -> restart_run(reloader, "monitor-restart", panel)
           [] reloader.pc = "cancel_monitor" ->
                  cancel_panel([reloader EXCEPT !.monitor_task = "cancelled"], panel)
           [] reloader.pc = "cancel_panel" ->
                  create([reloader EXCEPT !.panel_task = "cancelled"], panel)
    /\ UNCHANGED <<engine, inserted, today_key, lastcall, summ, post, fetch, today_note,
                   resolve, listing, request>>

NextReloader ==
    \/ ServiceStart
    \/ trigger_reload
    \/ ReloadTaskDone
    \/ MonitorEnds
    \/ \E panel \in {"running", "done"} : MainWake(panel)
    \/ \E panel \in {"running", "done"} : MainResumes(panel)

\* the event loop runs every task that can run
SpecReloader ==
    /\ InitLedger /\ [][NextReloader]_vars
    /\ WF_vars(ReloadTaskDone)
    /\ WF_vars(\E panel \in {"running", "done"} : MainWake(panel))
    /\ WF_vars(\E panel \in {"running", "done"} : MainResumes(panel))

\* --------------------------------------------------------- fairness
\* poll-forever mode on a day with few posts; the event loop ends every sleep
InitFair ==
    /\ InitCommon
    /\ once = FALSE
    /\ quota = SmallQuota
    /\ pc = [g \in Gens |-> [c \in Creators |-> IF g = 1 THEN "resolve" ELSE "none"]]

FairSpec ==
    InitFair /\ [][Next]_vars /\ \A c \in Creators : WF_vars(Wake(1, c))

\* ------------------------------------------------- properties of a tick
TickOver(g, c) == pc[g][c] \in {"sleep", "backoff", "done", "aborted"}

TickReturned(g, c) == pc[g][c] \in {"sleep", "done"}

AllSent(outs) == \A i \in 1..Len(outs) : outs[i] \in {"sent", "sent_fail"}

\* C1: a digest for a given post id is handed to the notification sink at
\* most once, over any sequence of ticks and every outcome of the calls.
SentAtMostOnce ==
    \A g \in Gens, c \in Creators, p \in Posts : dispatched[g][c][p] <= 1

\* C2: an entry that was in today's list at a first-encounter tick without
\* being sampled is never dispatched by a later tick (the baseline having
\* been set to the whole list whatever happened to the sampled entries).
BacklogNeverDispatched ==
    [][\A g \in Gens, c \in Creators : \A p \in backlog[c] :
          dispatched'[g][c][p] = dispatched[g][c][p]]_vars

\* C3: a first-encounter tick on empty state whose sampled entries are all
\* actionable dispatches exactly min(3, N) digests, those of the newest
\* entries, oldest first, and leaves all N ids in today's baseline.
FirstRunBaseline ==
    \A g \in Gens, c \in Creators :
        (/\ TickReturned(g, c)
         /\ branch[g][c] = "first"
         /\ AllSent(outcomes[g][c])
         /\ Range(state[g][c].seen) \subseteq Range(admitted[g][c]))
        => LET ids == today_note_ids[g][c]
               sent == SubSeq(admitted[g][c], 1, Len(outcomes[g][c]))
           IN /\ Len(sent) = Min(FIRST_RUN_SAMPLE, Len(ids))
              /\ Range(sent) \subseteq Range(ids)
              /\ \A p \in Range(sent), q \in Range(ids) \ Range(sent) :
                    note_time(q) < note_time(p)
              /\ \A i, j \in 1..Len(sent) :
                    i < j => note_time(sent[i]) < note_time(sent[j])
              /\ \A p \in Range(sent) : dispatched[g][c][p] >= 1
              /\ Range(ids) \subseteq Range(get_daily_seen(state[g][c], Today))

FirstRunBaselineWitness ==
    \E g \in Gens, c \in Creators :
        /\ TickReturned(g, c)
        /\ branch[g][c] = "first"
        /\ AllSent(outcomes[g][c])
        /\ Range(state[g][c].seen) \subseteq Range(admitted[g][c])
        /\ Len(outcomes[g][c]) = FIRST_RUN_SAMPLE
        /\ Len(today_note_ids[g][c]) > FIRST_RUN_SAMPLE

\* C4: a tick whose listing holds no id outside the recorded (non-empty)
\* baseline dispatches nothing, changes no ledger and does not touch the file.
IdempotentTick ==
    [][\A g \in Gens, c \in Creators :
          (/\ pc[g][c] = "list" /\ pc'[g][c] # "list"
           /\ today_note_ids'[g][c] # <<>>
           /\ get_daily_seen(state[g][c], Today) # <<>>
           /\ Range(today_note_ids'[g][c])
                 \subseteq Range(get_daily_seen(state[g][c], Today)))
          => /\ dispatched' = dispatched
             /\ state' = state
             /\ disk' = disk
             /\ pc'[g][c] = AfterReturn(c)]_vars

\* a repeated tick has just ended while the memory holds changes the file lacks
IdempotentTickWitness ==
    \E g \in Gens, c \in Creators :
        /\ TickReturned(g, c)
        /\ branch[g][c] = "incr"
        /\ today_note_ids[g][c] # <<>>
        /\ admitted[g][c] = <<>>
        /\ state[g] # load(disk)

\* C9: a failure while one admitted post is processed never keeps the
\* remaining admitted posts of that tick from being processed.
NoAdmittedLeftBehind ==
    \A g \in Gens, c \in Creators :
        TickOver(g, c) => Len(outcomes[g][c]) = Len(admitted[g][c])

\* C8: a failure inside one creator's tick never keeps another creator from
\* being processed (run-once mode: no creator is left waiting).
FailureNeverBlocksOthers ==
    \A g \in Gens, c \in Creators, d \in Creators :
        pc[g][c] = "aborted" => pc[g][d] # "waiting"

\* C5: an instance started from the state file after the previous one was
\* stopped at a suspension point never dispatches a post that an earlier
\* instance dispatched and marked seen (every mutation having reached the
\* file before the suspension point).
NoRedispatchAfterRestart ==
    \A c \in Creators, p \in Posts, g \in Gens, h \in Gens :
        (g < h /\ dispatched[g][c][p] > 0 /\ has_seen(state[g][c], p))
        => dispatched[h][c][p] = 0

\* C7: at most one process_creator pass is in progress for any creator.
InTick(g, c) == Alive(g) /\ pc[g][c] \in {"resolve", "list", "note"}

SingleWriter ==
    \A c \in Creators : Cardinality({g \in Gens : InTick(g, c)}) <= 1

Recorded(e) == Range(e.seen) \cup Range(get_daily_seen(e, Today))

SeenCapacity ==
    \A c \in Creators :
        /\ Len(state[1][c].seen) <= SEEN_CAP
        /\ state[1][c].seen = LastN(inserted[c], SEEN_CAP)

\* more ids were inserted than the list holds, one of them for the second time
SeenCapacityWitness ==
    \E c \in Creators :
        /\ Len(inserted[c]) > SEEN_CAP
        /\ Len(state[1][c].seen) = SEEN_CAP
        /\ \E i \in 1..Len(inserted[c]) :
               i < Len(inserted[c]) /\ inserted[c][i] = inserted[c][Len(inserted[c])]

\* C14: has_seen(c, p) is true right after mark_seen(c, p) and stays true
\* through later calls (for other ids, and on the daily ledger) as long as
\* fewer than 200 other ids have been inserted after p.
SeenUntilEvicted ==
    \A c \in Creators : \A i \in 1..Len(inserted[c]) :
        Len(inserted[c]) - i < SEEN_CAP => has_seen(state[1][c], inserted[c][i])

\* an id is still seen with 199 ids inserted after it, and an older one is not
SeenUntilEvictedWitness ==
    \E c \in Creators : \E i \in 1..Len(inserted[c]) :
        /\ i > 1
        /\ Len(inserted[c]) - i = SEEN_CAP - 1
        /\ has_seen(state[1][c], inserted[c][i])
        /\ ~has_seen(state[1][c], inserted[c][i - 1])
        /\ get_daily_seen(state[1][c], Today) # <<>>

\* C15: the daily-seen map of every creator holds at most 7 day keys after
\* any sequence of set_daily_seen and add_daily_seen calls.
DailyKeysCapped ==
    \A c \in Creators : Cardinality(DOMAIN state[1][c].daily_seen) <= DAILY_KEYS_CAP

SetContainsCurrent ==
    lastcall'.op = "set_daily_seen"
    => Range(get_daily_seen(state[1][lastcall'.c], today_key)) \subseteq Range(lastcall'.ids)

AllCallsOk(calls) == \A k \in 1..Len(calls) : calls[k].outcome = "ok"

ChunkedShape ==
    (/\ summ.pc = "returned" /\ summ.n > summ.size
     /\ summ.summarizer /\ AllCallsOk(summ.calls))
    => LET calls == summ.calls
           count == (summ.n + summ.size - 1) \div summ.size
       IN /\ Len(calls) = count
          /\ \A k \in 1..count :
                /\ Len(calls[k].images) = Min(summ.size, summ.n - (k - 1) * summ.size)
                /\ \A j \in 1..Len(calls[k].images) :
                      calls[k].images[j] = (k - 1) * summ.size + j
          /\ calls[1].context = None
          /\ \A k \in 2..count : calls[k].context = calls[k - 1].output
          /\ summ.result = calls[count].output
          /\ summ.result # None

\* three successful calls, the last one on a shorter chunk
ChunkedShapeWitness ==
    /\ summ.pc = "returned" /\ summ.summarizer /\ AllCallsOk(summ.calls)
    /\ Len(summ.calls) = 3
    /\ summ.size > 1
    /\ summ.n % summ.size # 0

\* C18: a failed AI call is not repeated and contributes nothing: the prompt
\* of a call carries the output of the latest successful call before it, the
\* output of the latest successful call is returned, none if no call
\* succeeded; an empty image list gives none without any call.
LastGood(calls, k) ==
    IF \E j \in 1..k : calls[j].outcome = "ok"
    THEN calls[CHOOSE j \in 1..k : /\ calls[j].outcome = "ok"
                                  /\ \A m \in (j + 1)..k : calls[m].outcome # "ok"].output
    ELSE None

LastKnownGood ==
    LET calls == summ.calls
    IN /\ Len(calls) <= Len(summ.batches)
       /\ \A k \in 1..Len(calls) :
             /\ calls[k].images = summ.batches[k]
             /\ calls[k].context = LastGood(calls, k - 1)
             /\ calls[k].outcome # "ok" => calls[k].output = None
       /\ summ.pc = "returned"
             => /\ summ.result = LastGood(calls, Len(calls))
                /\ summ.summarizer => Len(calls) = Len(summ.batches)
                /\ summ.n = 0 => calls = <<>> /\ summ.result = None

\* a failed call between two successful ones, and a failed last call
LastKnownGoodWitness ==
    /\ summ.pc = "returned"
    /\ Len(summ.calls) = 4
    /\ summ.calls[1].outcome = "ok" /\ summ.calls[2].outcome = "raise"
    /\ summ.calls[3].outcome = "ok" /\ summ.calls[4].outcome = "raise"

\* C19: when the cover url of a post is one of the urls of its image list, on
\* either resolution path, the url is neither among the images given to the
\* summarizer nor among the image references of the digest.
CoverExcluded ==
    (post.pc = "sent" /\ post.cover_url # None /\ post.cover_url \in Range(post.listed))
    => /\ post.cover_url \notin Range(post.images)
       /\ post.cover_url \notin Range(post.refs)

\* the calls of the fallback chain: at most two get_note_info and one
\* get_note_xsec_token; a second get_note_info only after the first failed and
\* the refresh gave a token, and with that token
FallbackCalls ==
    /\ Len(fetch.attempts) <= 2
    /\ Len(fetch.refreshes) <= 1
    /\ fetch.refreshes # <<>> => /\ fetch.attempts # <<>>
                                 /\ fetch.attempts[1].outcome = "fail"
    /\ Len(fetch.attempts) = 2
          => /\ fetch.attempts[1].outcome = "fail"
             /\ Len(fetch.refreshes) = 1 /\ fetch.refreshes[1] # <<>>
             /\ fetch.attempts[2].token = fetch.refreshes[1]

RetryReached ==
    /\ fetch.pc = "returned"
    /\ Len(fetch.attempts) >= 1 /\ fetch.attempts[1].outcome = "fail"
    /\ Len(fetch.refreshes) = 1 /\ fetch.refreshes[1] # <<>>

\* C20: the fallback chain makes at most two detail fetches and one token
\* refresh, the second fetch only after a failed first one and a successful
\* refresh and with the new token; and when the first fetch fails and the
\* refresh and the retry succeed, a detail is returned after two fetches.
FallbackChain ==
    /\ FallbackCalls
    /\ (RetryReached /\ fetch.attempts[Len(fetch.attempts)].outcome # "fail")
          => fetch.result # "None" /\ Len(fetch.attempts) = 2

\* C20 (as the code has it): the same, the detail being returned when the
\* retried response reports success and carries an item.
FallbackChainWithItem ==
    /\ FallbackCalls
    /\ (RetryReached
         /\ fetch.attempts[Len(fetch.attempts)].outcome \in {"ok_items", "ok_nocard"})
          => fetch.result # "None" /\ Len(fetch.attempts) = 2

\* the first fetch failed, the page gave a token holding "&" or "=", and the
\* retry with it returned the note card
FallbackChainWithItemWitness ==
    /\ RetryReached
    /\ Len(fetch.attempts) = 2
    /\ fetch.attempts[2].outcome = "ok_items"
    /\ fetch.attempts[1].token # fetch.attempts[2].token
    /\ \E i \in 1..Len(fetch.refreshes[1]) : fetch.refreshes[1][i] \in {"&", "="}
    /\ fetch.result = "card"

\* C6: the state file always holds a complete document, which is the one it
\* held before the running (or last) save started or the one that save writes.
AtomicReplace ==
    /\ disk.target.n = SaveChunks
    /\ disk.target.doc \in {saving.old, saving.new}

\* the process died inside save: a partial temporary file is left behind
AtomicReplaceWitness ==
    /\ savepc = "idle"
    /\ disk.tmp.n >= 0 /\ disk.tmp.n < SaveChunks
    /\ saving.old # saving.new
    /\ disk.target.doc = saving.old
    /\ state[1] = saving.old

\* C10: after an exception in a tick the loop is in its fixed backoff sleep,
\* and it starts another tick.
TickRaised(g, c) ==
    /\ outcomes[g][c] # <<>>
    /\ outcomes[g][c][Len(outcomes[g][c])] \in {"raise", "sink_raise"}

LoopSurvivesException ==
    \A c \in Creators :
        /\ [](TickRaised(1, c) => pc[1][c] = "backoff")
        /\ TickRaised(1, c) ~> (pc[1][c] = "resolve")

LoopSurvivesExceptionWitness ==
    \E c \in Creators : TickRaised(1, c) /\ pc[1][c] = "backoff"

\* C21: an admitted entry whose resolved type is present and not "normal", or
\* whose image list is empty, or whose detail could not be resolved, is recorded
\* in both ledgers by the call that finds it so, without an AI call, a digest or
\* a dispatch; it stays recorded and is not dispatched by any later tick.
FoundNonActionable(nt) ==
    /\ nt.pc \notin {"idle", "detail"}
    /\ \/ nt.type \notin {"absent", "normal"}
       \/ nt.image_urls = 0
       \/ nt.detail \in {"None", "empty_card"}

NonActionableRecorded ==
    [][/\ FoundNonActionable(today_note')
          => /\ today_note'.pc = "returned"
             /\ today_note'.c \in today_note'.skipped
             /\ today_note'.ai_calls = 0
             /\ today_note'.digest = NoDigest
             /\ today_note'.sink = "none"
       /\ \A c \in today_note.skipped :
             /\ InBoth(state[1][c], NoteId) /\ InBoth(state'[1][c], NoteId)
             /\ today_note'.sends[c] = today_note.sends[c]]_vars

\* a post was dispatched to a raising sink in one tick and found without a
\* resolvable detail in the next; its record is in the file
NonActionableRecordedWitness ==
    \E c \in Creators :
        /\ today_note.pc = "idle"
        /\ c \in today_note.skipped
        /\ today_note.sends[c] = 1
        /\ InBoth(state[1][c], NoteId)
        /\ InBoth(load(disk)[c], NoteId)

\* C22: a post whose detail fetch and retry failed in this tick (and whose
\* type does not make it non-actionable) is in neither ledger when the call
\* returns, so that the next tick admits it again.
FailedFetchNotMarked ==
    (/\ today_note.pc = "returned"
     /\ today_note.detail = "None"
     /\ today_note.type \in {"absent", "normal"})
    => /\ ~has_seen(state[1][today_note.c], NoteId)
       /\ NoteId \notin Range(get_daily_seen(state[1][today_note.c], Today))

\* C23: whatever the sink did with the digest of an actionable post (returned
\* true, returned false, raised), the post is in both ledgers once the dispatch
\* is over, and no post is handed to the sink a second time.
MarkedWhateverTheSink ==
    /\ today_note.sink # "none" => InBoth(state[1][today_note.c], NoteId)
    /\ \A c \in Creators : today_note.sends[c] <= 1

\* C24: when no AI call of an actionable post gave a summary (every call
\* failed, or there is no summarizer), the processing goes on: once it is over
\* the digest was formatted without a summary section and handed to the sink,
\* and the post is in both ledgers.
SummaryFailed(nt) == nt.digest.formatted /\ nt.summary = None

DegradesToNoSummary ==
    /\ (today_note.pc \in {"dispatch", "returned", "raised"} /\ SummaryFailed(today_note))
          => ~today_note.digest.summary_section
    /\ (today_note.pc \in {"returned", "raised"} /\ SummaryFailed(today_note))
          => /\ today_note.sink # "none"
             /\ InBoth(state[1][today_note.c], NoteId)

\* C25: a save that fails changes neither the in-memory ledgers nor the state
\* file, and a save that succeeds leaves in the file the whole in-memory state,
\* with every mutation made before it (those a failed save did not write too).
SaveEnds == savepc = "write" /\ savepc' = "idle"

FailedSaveNeverDrops ==
    [][/\ (SaveEnds /\ disk'.tmp # NoFile)
             => /\ state' = state
                /\ disk'.target = disk.target
       /\ (SaveEnds /\ disk'.tmp = NoFile)
             => /\ state' = state
                /\ load(disk') = state[1]]_vars

\* a save failed with unsaved marks in memory, more marks were made, and a
\* later save has written all of them
FailedSaveNeverDropsWitness ==
    /\ lastcall = SaveFailed
    /\ savepc = "idle"
    /\ disk.tmp = NoFile
    /\ load(disk) = state[1]
    /\ \E c \in Creators : Len(state[1][c].seen) >= 2
    /\ saving.old # EmptyDoc
    /\ saving.old # saving.new

\* C26: a step of the loop of creator c (a ledger call, a whole tick, the save
\* at its end) changes the seen list and the daily map of no other creator in
\* memory, and what its save writes for another creator is that creator's own
\* in-memory record, whatever the other loops are doing.
Acted(g, c) == pc'[g][c] # pc[g][c] \/ outcomes'[g][c] # outcomes[g][c]

IsDirectId(raw) ==
    Len(raw) = 24 /\ \A i \in 1..Len(raw) : raw[i] \in {"a", "0"}

DirectIdSkipsSearch ==
    (resolve.pc # "idle" /\ IsDirectId(resolve.raw_id))
    => /\ resolve.calls = <<Call("get_profile_xsec_token", resolve.raw_id)>>
       /\ resolve.pc \in {"profile", "returned"}
       /\ resolve.pc = "returned" => resolve.result.user_id = resolve.raw_id

\* a profile url with a query has been resolved with the one call
DirectIdSkipsSearchWitness ==
    /\ resolve.pc = "returned"
    /\ Marker \in Range(resolve.ref) /\ "?" \in Range(resolve.ref)
    /\ IsDirectId(resolve.raw_id)
    /\ Len(resolve.calls) = 1
    /\ resolve.token_found
    /\ resolve.lists

\* C28: when the reference is a direct 24-hex id and the profile page gives no
\* token (or the scrape fails), identity resolution returns no identity and
\* the tick does not go on to list the feed.
DirectIdWithoutTokenFails ==
    (resolve.pc = "returned" /\ IsDirectId(resolve.raw_id) /\ ~resolve.token_found)
    => /\ ~resolve.result.found
       /\ ~resolve.lists

\* C29: a tick that ends because identity resolution failed, because the
\* listing failed, or because no listed entry is of today, dispatches nothing,
\* changes no ledger and does not write the state file.
ResolveFailed(g, c) == pc[g][c] = "resolve" /\ pc'[g][c] \notin {"resolve", "list"}

ListingEmpty(g, c) ==
    pc[g][c] = "list" /\ pc'[g][c] # "list" /\ today_note_ids'[g][c] = <<>>

EarlyEndChangesNothing ==
    [][\A g \in Gens, c \in Creators :
          (ResolveFailed(g, c) \/ ListingEmpty(g, c))
          => /\ dispatched' = dispatched
             /\ state' = state
             /\ disk' = disk]_vars

\* a tick has ended early while the memory holds marks that the file lacks (an
\* earlier tick raised after marking): a save would have shown
EarlyEndChangesNothingWitness ==
    \E g \in Gens, c \in Creators :
        /\ pc[g][c] = "sleep"
        /\ today_note_ids[g][c] = <<>>
        /\ state[g][c] # EmptyEntry
        /\ state[g] # load(disk)

\* C30: when identity resolution or the listing fails, the loop goes to its
\* fixed backoff sleep, not to the sleep of the poll interval.
ListingFailed(g, c) == ListingEmpty(g, c) /\ feedN[c] > 0

FailureBacksOff ==
    [][\A g \in Gens, c \in Creators :
          (ResolveFailed(g, c) \/ ListingFailed(g, c)) => pc'[g][c] = "backoff"]_vars

\* C31: when today's baseline is not empty the candidates of the tick are the
\* today ids outside the baseline, in increasing publish-time order; a
\* candidate that is in the all-time seen list is added to today's set and
\* nothing else (no processing, no dispatch), every other one is processed.
IncrementalAdmission ==
    [][\A g \in Gens, c \in Creators :
          /\ (pc[g][c] = "list" /\ branch'[g][c] = "incr")
                => LET a == admitted'[g][c]
                   IN /\ Range(a) = Range(today_note_ids'[g][c])
                                       \ Range(get_daily_seen(state[g][c], Today))
                      /\ \A i, j \in 1..Len(a) :
                            i < j => note_time(a[i]) < note_time(a[j])
          /\ branch'[g][c] = "incr"
                => \A i \in (Len(outcomes[g][c]) + 1)..Len(outcomes'[g][c]) :
                      LET p == admitted'[g][c][i]
                      IN IF p \in Range(state[g][c].seen)
                         THEN /\ outcomes'[g][c][i] = "seen"
                              /\ dispatched'[g][c][p] = dispatched[g][c][p]
                              /\ p \in Range(get_daily_seen(state'[g][c], Today))
                         ELSE outcomes'[g][c][i] # "seen"
          /\ (branch'[g][c] = "incr" /\ pc'[g][c] \in {"sleep", "done"})
                => Len(outcomes'[g][c]) = Len(admitted'[g][c])]_vars

\* a tick on a recorded baseline met the post of the day before and a new
\* post: the first was only added to today's set, the second was dispatched
IncrementalAdmissionWitness ==
    \E g \in Gens, c \in Creators :
        /\ branch[g][c] = "incr"
        /\ Len(outcomes[g][c]) = 2
        /\ outcomes[g][c][1] = "seen" /\ outcomes[g][c][2] = "sent"
        /\ admitted[g][c][1] = OldPost
        /\ dispatched[g][c][OldPost] = 0

\* C37: on the first-encounter branch and on the incremental branch alike, no
\* digest is handed to the sink for a post that the all-time seen list of its
\* creator already holds.
SeenGuardsEveryDispatch ==
    [][\A g \in Gens, c \in Creators, p \in Posts :
          dispatched'[g][c][p] > dispatched[g][c][p]
              => p \notin Range(state[g][c].seen)]_vars

\* C32: the cap of FIRST_RUN_SAMPLE bounds the first-encounter tick only; on a
\* recorded baseline every listed entry that is in neither the baseline nor
\* the all-time seen list is admitted, however many there are, and has been
\* processed when the tick that first lists it is over.
TwoTierAdmission ==
    [][\A g \in Gens, c \in Creators :
          /\ (pc[g][c] = "list" /\ branch'[g][c] = "first")
                => Len(admitted'[g][c]) <= FIRST_RUN_SAMPLE
          /\ (pc[g][c] = "list" /\ branch'[g][c] = "incr")
                => Range(today_note_ids'[g][c])
                      \ (Range(get_daily_seen(state[g][c], Today))
                           \cup Range(state[g][c].seen))
                      \subseteq Range(admitted'[g][c])
          /\ (branch'[g][c] = "incr" /\ ~TickOver(g, c)
                /\ pc'[g][c] \in {"sleep", "backoff", "done", "aborted"})
                => Len(outcomes'[g][c]) = Len(admitted'[g][c])]_vars

\* C33: a reference that is not a 24-hex id is searched as normalized; the
\* name is searched second only when the first search listed no user and the
\* name is not empty and differs from the reference; never more than two
\* searches, and without a user from any of them nothing is returned.
SearchResolution ==
    (resolve.pc # "idle" /\ ~is_profile_id(resolve.raw_id))
        => /\ Len(resolve.calls) \in 1..2
           /\ Len(resolve.users) <= Len(resolve.calls)
           /\ \A i \in 1..Len(resolve.calls) : resolve.calls[i].op = "search_user"
           /\ resolve.calls[1].arg = extract_profile_id(resolve.ref)
           /\ Len(resolve.users) >= 1
                 => (Len(resolve.calls) = 2
                       <=> /\ resolve.users[1] = <<>>
                           /\ resolve.name # <<>>
                           /\ resolve.name # extract_profile_id(resolve.ref))
           /\ Len(resolve.calls) = 2 => resolve.calls[2].arg = resolve.name
           /\ resolve.pc = "returned"
                 => /\ Len(resolve.users) = Len(resolve.calls)
                    /\ (\A i \in 1..Len(resolve.users) : resolve.users[i] = <<>>)
                          => (resolve.result = NoIdentity /\ ~resolve.lists)

\* the reference and then the name were searched, neither listed a user, and
\* the resolution returned nothing
SearchResolutionWitness ==
    /\ resolve.pc = "returned"
    /\ Len(resolve.calls) = 2
    /\ resolve.calls[1] = Call("search_user", extract_profile_id(resolve.ref))
    /\ resolve.calls[2] = Call("search_user", <<"n">>)
    /\ resolve.users = <<<<>>, <<>>>>
    /\ resolve.result = NoIdentity

\* the images of a sequence of chunks, in order
RECURSIVE Flatten(_)
Flatten(chunks) == IF chunks = <<>> THEN <<>> ELSE Head(chunks) \o Flatten(Tail(chunks))

\* C35: for a batch size of at least 1, _chunk_images cuts the images into
\* contiguous chunks whose concatenation is the input; every chunk holds 1 to
\* size images, only the last may hold fewer than size, and there are
\* ceil(n / size) of them.
ChunkPartition ==
    (summ.pc # "idle" /\ summ.size >= 1)
        => LET images == [k \in 1..summ.n |-> k]
               chunks == chunk_images(images, summ.size)
           IN /\ summ.n > 0 => summ.batches = chunks
              /\ Flatten(chunks) = images
              /\ \A i \in 1..Len(chunks) : Len(chunks[i]) \in 1..summ.size
              /\ \A i \in 1..(Len(chunks) - 1) : Len(chunks[i]) = summ.size
              /\ Len(chunks) = (summ.n + summ.size - 1) \div summ.size

\* five images were cut by two into chunks of 2, 2 and 1
ChunkPartitionWitness ==
    /\ summ.pc = "loop"
    /\ summ.n = 5 /\ summ.size = 2
    /\ summ.batches = <<<<1, 2>>, <<3, 4>>, <<5>>>>

\* C36: whatever the interleaving of the creators' loops, a file written by
\* save holds for a creator whose first-encounter tick is under way a today
\* baseline that is empty or has every id of the list of that tick.
SavedBaselineWhole ==
    [][\A g \in Gens, d \in Creators :
          (disk' # disk /\ (\E c \in Creators : Acted(g, c))
             /\ pc'[g][d] = "note" /\ branch'[g][d] = "first")
          => LET baseline == Range(get_daily_seen(disk'.target.doc[d], Today))
             IN baseline = {} \/ Range(today_note_ids'[g][d]) \subseteq baseline]_vars

\* C34: a listed entry without a publish time (no time key or 0, in note_card
\* and in the entry) is not among the tick's today ids nor its candidates, is
\* not dispatched and enters no seen list and no daily set, on any tick.
InLedger(e, p) ==
    p \in Range(e.seen) \/ \E k \in DOMAIN e.daily_seen : p \in Range(e.daily_seen[k])

UnknownTimeNeverEligible ==
    [][\A k \in 1..Len(listing'.notes) :
          LET n == listing'.notes[k]
          IN (n.card_time = None /\ n.time = None)
             => /\ n.note_id \notin Range(listing'.today_note_ids)
                /\ n.note_id \notin Range(listing'.admitted)
                /\ n.note_id \in listing'.sent => n.note_id \in listing.sent
                /\ InLedger(listing'.e, n.note_id) => InLedger(listing.e, n.note_id)]_vars

\* a tick over an entry without a time and an entry of today has returned:
\* the second was dispatched and is the whole baseline, the first is nowhere
UnknownTimeNeverEligibleWitness ==
    /\ listing.pc = "returned"
    /\ Len(listing.notes) = 2
    /\ listing.notes[1].card_time = None /\ listing.notes[1].time = None
    /\ listing.notes[2].card_time = None /\ listing.notes[2].time = stamp(Today, 2)
    /\ listing.notes[1].note_id = 1
    /\ listing.sent = {2}
    /\ get_daily_seen(listing.e, Today) = <<2>>
    /\ ~InLedger(listing.e, 1)

\* C38: one _request makes at most two attempts; the second follows one retry
\* delay and only a first attempt that raised or answered success false; what
\* the second attempt answers is returned as it is, {} is returned when the
\* last attempt raised, and the loop has no third pass.
RequestAtMostTwice ==
    request.pc # "idle"
    => LET outs == request.outcomes
           second == Len(outs) = 2 \/ request.attempt = 1 \/ request.pc = "sleep"
       IN /\ Len(outs) <= 2 /\ request.attempt \in {0, 1}
          /\ request.http <= Len(outs)
          /\ request.sleeps = IF second THEN 1 ELSE 0
          /\ second => outs[1] \in Raises \cup {"failure"}
          /\ request.pc = "returned"
                => request.result =
                      IF outs[Len(outs)] \in Raises THEN "empty" ELSE outs[Len(outs)]
          /\ (request.pc = "returned" /\ Len(outs) = 1) => outs[1] \in {"success", "other"}

\* the first attempt raised in the HTTP call, the delay passed, the second
\* attempt was answered success false and that answer was returned
RequestAtMostTwiceWitness ==
    /\ request.pc = "returned"
    /\ request.outcomes = <<"http_raise", "failure">>
    /\ request.http = 2 /\ request.sleeps = 1
    /\ request.result = "failure"

\* C39: every trigger_reload, whenever it comes, is followed by a run of
\* restart_services whose reload_config is behind it, and the monitor task a
\* restart replaces is no longer running when the new one is created.
NoChangeLost ==
    /\ reloader.unserved ~> ~reloader.unserved
    /\ [](reloader.replaced # "running")

\* a change came while a restart was cancelling the monitor task, behind that
\* restart's reload_config, and the loop is back at its wait with the event set
NoChangeLostWitness ==
    /\ reloader.pc = "wait"
    /\ reloader.reason = "config-change"
    /\ reloader.replaced = "cancelled"
    /\ reloader.event /\ reloader.unserved
    /\ reloader.reload_task = "waiting"

====
